---------------------------- MODULE Spec2Model ----------------------------
(***************************************************************************)
(* Model of the direct-rf firmware core: the RingBuffer of util.rs, the    *)
(* serial Link of comm.rs (get_message over the receive ring buffer, with  *)
(* the postcard/COBS framing the host encoder produces) and the Sequencer  *)
(* of sequencer.rs with its DoubleBuffer.                                  *)
(*                                                                         *)
(* Sizes are scaled down: the ring holds L elements instead of 512 and the *)
(* assembly buffer MAX_UPLINK_MSG_SIZE bytes; the cursor arithmetic, the   *)
(* wrap at index L and the framing are those of the source.                *)
(***************************************************************************)
EXTENDS Integers, Sequences, FiniteSets, TLC

\* ------------------------------------------------------------------ bounds
\* Capacity of the ring buffer (RingBuffer<u8, 512> in comm.rs, scaled).
L == 5
\* Size of the Link's assembly buffer (MAX_UPLINK_MSG_SIZE, scaled).
MAX_UPLINK_MSG_SIZE == 4
\* Largest value of a stray byte on the serial line (frame bytes come on top).
MaxByte == 1
\* Most stray bytes on the serial line in one run.
MaxNoise == 2
\* Most bytes the host side puts on the serial line in one run.
MaxSent == 5
\* Largest element value the ring specifications write (0 is the delimiter).
MaxVal == 1
\* Longest slice passed to one RingBuffer::write call.
MaxWriteLen == 3
\* Most elements offered to the ring in one run of the ring specifications.
MaxOffered == 7
\* Most elements offered to the ring in one run with interleaved calls.
MaxConcOffered == 4

\* Option<T>::None of the seek argument of RingBuffer::read.
NoSeek == -1

Vals == 0..MaxVal

\* ------------------------------------------------------------------- state
VARIABLES
    data,        \* RingBuffer.data: [T; L]
    ptrs,        \* RingBuffer.read_write_ptrs: [read, write]
    accepted,    \* history: every element a write counted in its return value
    returned,    \* history: every element a read copied to its target
    offered,     \* history: number of elements passed to write so far
    lastOp,      \* record of the last completed ring operation
    rd,          \* a read in progress: its local ptrs and copied elements
    wr,          \* a write in progress: its local ptrs and count
    msg_buffer,      \* CommState.msg_buffer: [u8; MAX_UPLINK_MSG_SIZE]
    msg_buffer_ptr,  \* CommState.msg_buffer_ptr
    wire,        \* bytes received by the USART, not yet taken by its interrupt
    tx,          \* reply bytes written to the USART since the host last
                 \* cleared its input
    sent,        \* history: number of bytes put on the line so far
    noise,       \* history: number of stray bytes among them
    cur,         \* history: the message of a frame sent into an idle Link and
                 \* not answered yet
    lastGet,     \* history: record of the last get_message call
    pending,     \* history: bytes the receive interrupt wrote to the ring
                 \* minus bytes get_message read from it
    fault,       \* TRUE once the firmware has panicked
    state,       \* SequencerState, with the TIM2 and RCC registers it owns
    lastCmd,     \* history: the sequencer operation that ran last, whether
                 \* the sequencer was idle when it started, the register
                 \* accesses it made, in order, and whether the latest launch
                 \* came after every push made so far (settled)
    host,        \* the host program: its position in main and in send, the
                 \* program it uploads and the locals of send
    cpu,         \* the firmware's execution contexts: where the foreground
                 \* loop and the running interrupt handler are, PRIMASK, the
                 \* pending interrupts and the RefCell borrows of the two cells
    rx           \* the receive interrupt's run: the bytes in the hardware
                 \* FIFO and the handler's local buffer

ringVars == <<data, ptrs, accepted, returned, offered, lastOp, rd, wr>>
linkVars == <<msg_buffer, msg_buffer_ptr, wire, tx, sent, noise, cur, lastGet,
             pending, fault>>
commVars == <<msg_buffer, msg_buffer_ptr, wire, tx, sent, noise, cur, lastGet,
             pending>>
seqVars == <<state, lastCmd>>
hostVars == <<host>>
cpuVars == <<cpu, rx>>
vars == <<data, ptrs, accepted, returned, offered, lastOp, rd, wr,
          msg_buffer, msg_buffer_ptr, wire, tx, sent, noise, cur, lastGet,
          pending, fault, state, lastCmd, host, cpu, rx>>

Min(a, b) == IF a < b THEN a ELSE b

\* Index of the first element of s equal to v, or Len(s) + 1 when there is none.
FirstIndex(s, v) ==
    IF \E i \in 1..Len(s) : s[i] = v
    THEN CHOOSE i \in 1..Len(s) : s[i] = v /\ \A j \in 1..(i - 1) : s[j] # v
    ELSE Len(s) + 1

\* All sequences over S of length lo..hi.
SeqsOf(S, lo, hi) == UNION {[1..n -> S] : n \in lo..hi}

\* ------------------------------------------------------------- RingBuffer
\* A read_up_to that does not stop when the target is full.
RECURSIVE read_up_to_nocap(_, _, _, _, _, _)
read_up_to_nocap(dat, tlen, up_to, rdp, acc, seek) ==
    IF rdp < up_to
    THEN IF seek # NoSeek /\ dat[rdp] = seek
         THEN [read |-> rdp + 1, out |-> Append(acc, dat[rdp])]
         ELSE read_up_to_nocap(dat, tlen, up_to, rdp + 1,
                               Append(acc, dat[rdp]), seek)
    ELSE [read |-> rdp, out |-> acc]

\* read_up_to: copy from index rdp towards up_to into the target (acc is what
\* the target holds so far, tlen its length), stopping when the target is full
\* or right after copying an element equal to seek.
RECURSIVE read_up_to(_, _, _, _, _, _)
read_up_to(dat, tlen, up_to, rdp, acc, seek) ==
    IF rdp < up_to /\ Len(acc) < tlen
    THEN IF seek # NoSeek /\ dat[rdp] = seek
         THEN [read |-> rdp + 1, out |-> Append(acc, dat[rdp])]
         ELSE read_up_to(dat, tlen, up_to, rdp + 1, Append(acc, dat[rdp]), seek)
    ELSE [read |-> rdp, out |-> acc]

\* The body of RingBuffer::read between the snapshot of the cursors and the
\* store-back: p is the snapshot; the result holds the local ptrs that will
\* be stored (store = FALSE on the early return) and the elements copied.
read(dat, p, tlen, seek) ==
    IF p.write = p.read
    THEN [ptrs |-> p, out |-> <<>>, store |-> FALSE]
    ELSE IF p.write < p.read
    THEN LET a == read_up_to(dat, tlen, L, p.read, <<>>, seek) IN
         IF a.read = L
         THEN LET b == read_up_to(dat, tlen, p.write, 0, a.out, seek) IN
              [ptrs |-> [read |-> b.read, write |-> p.write],
               out |-> b.out, store |-> TRUE]
         ELSE [ptrs |-> [read |-> a.read, write |-> p.write],
               out |-> a.out, store |-> TRUE]
    ELSE LET a == read_up_to(dat, tlen, p.write, p.read, <<>>, seek) IN
         [ptrs |-> [read |-> a.read, write |-> p.write],
          out |-> a.out, store |-> TRUE]

\* write_up_to: copy src[n+1..] into the storage from index wrp towards up_to.
\* reached is the function's return value: TRUE when the loop ended at up_to,
\* FALSE when the source ran out first.
RECURSIVE write_up_to(_, _, _, _, _)
write_up_to(dat, src, up_to, wrp, n) ==
    IF wrp < up_to
    THEN IF n >= Len(src)
         THEN [data |-> dat, write |-> wrp, n |-> n, reached |-> FALSE]
         ELSE write_up_to([dat EXCEPT ![wrp] = src[n + 1]], src, up_to,
                          wrp + 1, n + 1)
    ELSE [data |-> dat, write |-> wrp, n |-> n, reached |-> TRUE]

\* The body of RingBuffer::write between the snapshot and the store-back.
write(dat, p, src) ==
    IF p.write < p.read
    THEN LET a == write_up_to(dat, src, p.read, p.write, 0) IN
         [ptrs |-> [read |-> p.read, write |-> a.write],
          data |-> a.data, n |-> a.n]
    ELSE LET a == write_up_to(dat, src, L, p.write, 0) IN
         IF a.reached
         THEN LET b == write_up_to(a.data, src, p.read, 0, a.n) IN
              [ptrs |-> [read |-> p.read, write |-> b.write],
               data |-> b.data, n |-> b.n]
         ELSE [ptrs |-> [read |-> p.read, write |-> a.write],
               data |-> a.data, n |-> a.n]

\* The SequencerState stored by sequencer::setup (sequencer.rs:249-261) after
\* setup_pll (sequencer.rs:95-124) has run on it: DoubleBuffer::new
\* (sequencer.rs:37-42) gives two empty slots with slot 0 active.  The
\* initialiser names no value for `uploading`; u is the value a build gives it.
\* tim and rcc hold the register fields the sequencer writes; main.rs:50 has
\* enabled divp1en before.
NewSequencerState(u) ==
    [seqs |-> [buffers |-> [i \in 0..1 |->
                              [fracn_buffer |-> <<>>, pllchange_buffer |-> <<>>]],
               active_0 |-> TRUE],
     pllchangei |-> 0,
     fracn_rem |-> 0,
     fracn_i |-> 0,
     is_running |-> FALSE,
     uploading |-> u,
     tim |-> [cen |-> FALSE, opm |-> FALSE, cnt |-> 0, arr |-> 0, uif |-> FALSE],
     rcc |-> [pll2on |-> FALSE, divp2en |-> TRUE, divp1en |-> TRUE,
              divn2 |-> 20 - 1, divp |-> 30 - 1, pll2vcosel |-> TRUE,
              fracn |-> 0, pll2fracen |-> FALSE]]

\* The state after construction: RingBuffer::new (util.rs:181-189), the
\* CommState stored by comm::setup (comm.rs:84-91) with nothing on the line,
\* and the SequencerState stored by sequencer::setup.
Init ==
    /\ data = [i \in 0..(L - 1) |-> 0]
    /\ ptrs = [read |-> 0, write |-> 0]
    /\ accepted = <<>>
    /\ returned = <<>>
    /\ offered = 0
    /\ lastOp = [op |-> "new"]
    /\ rd = [pc |-> "idle"]
    /\ wr = [pc |-> "idle"]
    /\ msg_buffer = [i \in 0..(MAX_UPLINK_MSG_SIZE - 1) |-> 0]
    /\ msg_buffer_ptr = 0
    /\ wire = <<>>
    /\ tx = <<>>
    /\ sent = 0
    /\ noise = 0
    /\ cur = [msg |-> [tag |-> "None"], idle |-> FALSE, afterBad |-> FALSE,
              ahead |-> 0]
    /\ lastGet = [call |-> "none", last |-> -1]
    /\ pending = 0
    /\ fault = FALSE
    /\ state = NewSequencerState(FALSE)
    /\ lastCmd = [op |-> "setup", idle |-> TRUE, log |-> <<>>,
                  settled |-> FALSE]
    /\ host = [pc |-> "off"]
    /\ cpu = [main |-> "off"]
    /\ rx = [pc |-> "off"]

\* What one read with a target of L elements and no seek returns now: the
\* elements the buffer still holds for its consumer.
Readable == read(data, ptrs, L, NoSeek).out

\* A whole RingBuffer::write call, run to completion (in SpecConc possibly
\* inside a read in progress, as the receive interrupt does).
Write(src) ==
    /\ wr.pc = "idle"
    /\ offered + Len(src) <= MaxOffered
    /\ LET w == write(data, ptrs, src) IN
       /\ data' = w.data
       /\ ptrs' = w.ptrs
       /\ accepted' = accepted \o SubSeq(src, 1, w.n)
       /\ offered' = offered + Len(src)
       /\ lastOp' = [op |-> "write", src |-> src, n |-> w.n,
                     unread |-> Len(accepted) - Len(returned),
                     before |-> Readable]
    /\ UNCHANGED <<returned, rd, wr>>
    /\ UNCHANGED linkVars
    /\ UNCHANGED seqVars
    /\ UNCHANGED hostVars
    /\ UNCHANGED cpuVars

\* A whole RingBuffer::read call, run to completion (in SpecConc possibly
\* inside a write in progress).
Read(tlen, seek) ==
    /\ rd.pc = "idle"
    /\ LET r == read(data, ptrs, tlen, seek) IN
       /\ ptrs' = IF r.store THEN r.ptrs ELSE ptrs
       /\ returned' = returned \o r.out
       /\ lastOp' = [op |-> "read", tlen |-> tlen, seek |-> seek, out |-> r.out,
                     before |-> Readable]
    /\ UNCHANGED <<data, accepted, offered, rd, wr>>
    /\ UNCHANGED linkVars
    /\ UNCHANGED seqVars
    /\ UNCHANGED hostVars
    /\ UNCHANGED cpuVars

RingNext ==
    \/ \E src \in SeqsOf(Vals, 1, MaxWriteLen) : Write(src)
    \/ \E tlen \in 0..L, seek \in {NoSeek} \cup Vals : Read(tlen, seek)

SpecRing == Init /\ [][RingNext]_vars

\* ------------------------------------------------------------ wire format
\* Option<UplinkMsg>::None
None == [tag |-> "None"]

\* Program constants of the wire format.
\* Length of the array of PushFracn(u8, [u16; 32]).
FRACN_CHUNK == 32
\* Capacity of the local Vec<u8, 16> of usart3_rx.
RX_BATCH == 16

BoolByte(b) == IF b THEN 1 ELSE 0

\* postcard's zigzag coding of a signed integer (i64 of EpochNow/StartAtEpoch).
ZigZag(n) == IF n >= 0 THEN 2 * n ELSE -2 * n - 1
UnZigZag(b) == IF b % 2 = 0 THEN b \div 2 ELSE -((b + 1) \div 2)

\* postcard serialization of an UplinkMsg: the variant index in declaration
\* order, then the fields. Every number of the model is below 128, where a
\* varint is the one byte holding the number.
Serialize(m) ==
    CASE m.tag = "Ping" -> <<0>>
      [] m.tag = "PushPLLChange" ->
            <<1, m.ch.for_ticks, m.ch.start_tick, m.ch.divn,
              BoolByte(m.ch.vcosel), m.ch.divp, m.ch.tim_us>>
      [] m.tag = "PushFracn" -> <<2, m.count>> \o m.values
      [] m.tag = "ClearBuffers" -> <<3>>
      [] m.tag = "StartNow" -> <<4>>
      [] m.tag = "StopNow" -> <<5>>
      [] m.tag = "SetLooping" -> <<6, BoolByte(m.b)>>
      [] m.tag = "EpochNow" -> <<7, ZigZag(m.t)>>
      [] m.tag = "StartAtEpoch" -> <<8, ZigZag(m.t)>>

\* postcard deserialization (from_bytes): None on an unknown variant, a record
\* cut short or a bool byte other than 0/1; bytes after the record are ignored.
Deserialize(pl) ==
    IF Len(pl) = 0 THEN None
    ELSE CASE pl[1] = 0 -> [tag |-> "Ping"]
           [] pl[1] = 1 ->
                IF Len(pl) >= 7 /\ pl[5] \in {0, 1}
                THEN [tag |-> "PushPLLChange",
                      ch |-> [for_ticks |-> pl[2], start_tick |-> pl[3],
                              divn |-> pl[4], vcosel |-> (pl[5] = 1),
                              divp |-> pl[6], tim_us |-> pl[7]]]
                ELSE None
           [] pl[1] = 2 ->
                IF Len(pl) >= 2 + FRACN_CHUNK
                THEN [tag |-> "PushFracn", count |-> pl[2],
                      values |-> SubSeq(pl, 3, 2 + FRACN_CHUNK)]
                ELSE None
           [] pl[1] = 3 -> [tag |-> "ClearBuffers"]
           [] pl[1] = 4 -> [tag |-> "StartNow"]
           [] pl[1] = 5 -> [tag |-> "StopNow"]
           [] pl[1] = 6 ->
                IF Len(pl) >= 2 /\ pl[2] \in {0, 1}
                THEN [tag |-> "SetLooping", b |-> (pl[2] = 1)]
                ELSE None
           [] pl[1] = 7 ->
                IF Len(pl) >= 2
                THEN [tag |-> "EpochNow", t |-> UnZigZag(pl[2])]
                ELSE None
           [] pl[1] = 8 ->
                IF Len(pl) >= 2
                THEN [tag |-> "StartAtEpoch", t |-> UnZigZag(pl[2])]
                ELSE None
           [] OTHER -> None

\* An encoder that does not stuff the zeros of the payload.
CobsEncode_nostuff(pl) == <<Len(pl) + 1>> \o pl

\* COBS encoding (payloads shorter than 254 bytes): each block is a code byte,
\* one more than the count of non-zero bytes that follow, standing for those
\* bytes and the zero after them.
RECURSIVE CobsEncode(_)
CobsEncode(pl) ==
    LET k == FirstIndex(pl, 0) IN
    IF k > Len(pl)
    THEN <<Len(pl) + 1>> \o pl
    ELSE <<k>> \o SubSeq(pl, 1, k - 1) \o CobsEncode(SubSeq(pl, k + 1, Len(pl)))

\* The host's encode / send: postcard::to_slice_cobs, whose output ends with
\* the 0x00 terminator.
encode(m) == CobsEncode(Serialize(m)) \o <<0>>

\* cobs::decode_in_place as postcard::from_bytes_cobs runs it: a state machine
\* fed byte by byte (st = -1: idle; st = n >= 0: n data bytes to go before the
\* next code byte). It ends at the first terminator that closes a block, fails
\* on a zero inside a block and when the input ends first. out is what has
\* been decoded in place so far.
RECURSIVE cobs_decode(_, _, _, _)
cobs_decode(buf, i, st, out) ==
    IF i > Len(buf) THEN [ok |-> FALSE, out |-> out]
    ELSE IF st = -1
    THEN IF buf[i] = 0
         THEN cobs_decode(buf, i + 1, -1, out)
         ELSE cobs_decode(buf, i + 1, buf[i] - 1, out)
    ELSE IF st = 0
    THEN IF buf[i] = 0
         THEN [ok |-> TRUE, out |-> out]
         ELSE cobs_decode(buf, i + 1, buf[i] - 1, Append(out, 0))
    ELSE IF buf[i] = 0
         THEN [ok |-> FALSE, out |-> out]
         ELSE cobs_decode(buf, i + 1, st - 1, Append(out, buf[i]))

\* try_decode_message: postcard::from_bytes_cobs on the assembled bytes.
\* msg is the Option<UplinkMsg>, out the bytes decoded in place at the start
\* of the buffer.
try_decode_message(buff) ==
    LET d == cobs_decode(buff, 1, -1, <<>>) IN
    [msg |-> IF d.ok THEN Deserialize(d.out) ELSE None, out |-> d.out]

\* The messages the model's host sends: those whose frame fits the host's
\* MAX_UPLINK_MSG_SIZE encode buffer at the scaled size.
HostMsgs ==
    {m \in {[tag |-> "Ping"], [tag |-> "StopNow"],
            [tag |-> "SetLooping", b |-> FALSE],
            [tag |-> "SetLooping", b |-> TRUE],
            [tag |-> "EpochNow", t |-> -1]} :
        Len(encode(m)) <= MAX_UPLINK_MSG_SIZE}

\* ------------------------------------------------------------------- Link
\* The Link holds nothing of an earlier transmission: no byte on the line, in
\* the ring or in the assembly buffer.
LinkIdle ==
    /\ wire = <<>>
    /\ pending = 0
    /\ msg_buffer_ptr = 0

\* No frame is being followed.
NoFrame == [msg |-> None, idle |-> FALSE, afterBad |-> FALSE, ahead |-> 0]

\* The bytes received and not yet read by get_message are one complete run
\* that fits the assembly buffer, ends with its only 0 and does not decode;
\* nothing is assembled yet and the ring has lost no byte.
BadRunAhead ==
    /\ msg_buffer_ptr = 0
    /\ pending = Len(Readable)
    /\ LET a == Readable \o wire IN
        /\ a # <<>>
        /\ Len(a) <= MAX_UPLINK_MSG_SIZE
        /\ FirstIndex(a, 0) = Len(a)
        /\ try_decode_message(a).msg = None

\* Host send (software main.rs:241-259): clears its input, then writes the
\* encoded frame of m to the port. cur follows the frame when it is sent to
\* an idle Link or right behind one run that does not decode.
SendFrame(m) ==
    /\ ~fault
    /\ sent + Len(encode(m)) <= MaxSent
    /\ wire' = wire \o encode(m)
    /\ sent' = sent + Len(encode(m))
    /\ tx' = <<>>
    /\ cur' = IF LinkIdle
              THEN [msg |-> m, idle |-> TRUE, afterBad |-> (lastGet.last = 0),
                    ahead |-> 0]
              ELSE IF BadRunAhead
              THEN [msg |-> m, idle |-> FALSE, afterBad |-> TRUE,
                    ahead |-> Len(Readable) + Len(wire)]
              ELSE NoFrame
    /\ UNCHANGED <<msg_buffer, msg_buffer_ptr, noise, lastGet, pending, fault>>
    /\ UNCHANGED ringVars
    /\ UNCHANGED seqVars
    /\ UNCHANGED hostVars
    /\ UNCHANGED cpuVars

\* Any other byte reaching the USART: line noise, a damaged or foreign frame.
SendByte(b) ==
    /\ ~fault
    /\ sent + 1 <= MaxSent
    /\ noise + 1 <= MaxNoise
    /\ wire' = Append(wire, b)
    /\ sent' = sent + 1
    /\ noise' = noise + 1
    /\ cur' = NoFrame
    /\ UNCHANGED <<msg_buffer, msg_buffer_ptr, tx, lastGet, pending, fault>>
    /\ UNCHANGED ringVars
    /\ UNCHANGED seqVars
    /\ UNCHANGED hostVars
    /\ UNCHANGED cpuVars

\* The USART3 interrupt, usart3_rx: k bytes are in the receive FIFO; they are
\* pushed to the local Vec (the push past its capacity panics) and written to
\* the ring buffer; a short write panics.
usart3_rx(k) ==
    /\ ~fault
    /\ k \in 1..Len(wire)
    /\ wire' = SubSeq(wire, k + 1, Len(wire))
    /\ IF k > RX_BATCH
       THEN /\ fault' = TRUE
            /\ UNCHANGED <<data, ptrs, pending>>
       ELSE LET w == write(data, ptrs, SubSeq(wire, 1, k)) IN
            /\ data' = w.data
            /\ ptrs' = w.ptrs
            /\ pending' = pending + w.n
            /\ fault' = (w.n # k)
    /\ UNCHANGED <<accepted, returned, offered, lastOp, rd, wr>>
    /\ UNCHANGED <<msg_buffer, msg_buffer_ptr, tx, sent, noise, cur, lastGet>>
    /\ UNCHANGED seqVars
    /\ UNCHANGED hostVars
    /\ UNCHANGED cpuVars

\* msg_buffer with the bytes of s stored from index at on.
Store(buf, at, s) ==
    [i \in (DOMAIN buf) \cup {at + j - 1 : j \in 1..Len(s)} |->
        IF i >= at /\ i < at + Len(s) THEN s[i - at + 1] ELSE buf[i]]

\* The first n bytes of msg_buffer, as a sequence.
Slice(buf, n) == [j \in 1..n |-> buf[j - 1]]

\* get_message (comm.rs:154-180), called by the main loop inside util::with,
\* so with interrupts disabled: one read from the ring into the free part of
\* msg_buffer, up to and including a 0; then, if the assembled bytes end with
\* 0, decode, reply 1 (ack) or 0 (nack) and reset msg_buffer_ptr.
get_message ==
    LET r == read(data, ptrs, MAX_UPLINK_MSG_SIZE - msg_buffer_ptr, 0)
        buf == Store(msg_buffer, msg_buffer_ptr, r.out)
        p == msg_buffer_ptr + Len(r.out)
        terminated == p > 0 /\ buf[p - 1] = 0
        d == try_decode_message(Slice(buf, p))
    IN
    [ptrs |-> IF r.store THEN r.ptrs ELSE ptrs,
     got |-> r.out,
     run |-> Slice(buf, p),
     terminated |-> terminated,
     msg_buffer |-> IF terminated THEN Store(buf, 0, d.out) ELSE buf,
     msg_buffer_ptr |-> IF terminated THEN 0 ELSE p,
     wrote |-> IF terminated
               THEN (IF d.msg # None THEN <<1>> ELSE <<0>>)
               ELSE <<>>,
     ret |-> IF terminated THEN d.msg ELSE None]

GetMessage ==
    /\ ~fault
    /\ LET g == get_message IN
       /\ ptrs' = g.ptrs
       /\ pending' = pending - Len(g.got)
       /\ msg_buffer' = g.msg_buffer
       /\ msg_buffer_ptr' = g.msg_buffer_ptr
       /\ tx' = tx \o g.wrote
       /\ lastGet' = [call |-> "get", got |-> g.got, run |-> g.run,
                      terminated |-> g.terminated, wrote |-> g.wrote,
                      ret |-> g.ret, of |-> cur, tx |-> tx \o g.wrote,
                      avail |-> Len(Readable),
                      crossed |-> (cur.ahead > 0 /\ Len(g.got) > cur.ahead),
                      last |-> IF g.wrote # <<>> THEN g.wrote[1]
                               ELSE lastGet.last]
       /\ cur' = IF cur.ahead > 0 /\ Len(g.got) <= cur.ahead
                 THEN [cur EXCEPT !.ahead = @ - Len(g.got)]
                 ELSE IF g.terminated THEN NoFrame
                 ELSE [cur EXCEPT !.ahead = 0]
    /\ UNCHANGED <<data, accepted, returned, offered, lastOp, rd, wr>>
    /\ UNCHANGED <<wire, sent, noise, fault>>
    /\ UNCHANGED seqVars
    /\ UNCHANGED hostVars
    /\ UNCHANGED cpuVars

LinkNext ==
    \/ \E m \in HostMsgs : SendFrame(m)
    \/ \E b \in 0..MaxByte : SendByte(b)
    \/ \E k \in 1..MaxSent : usart3_rx(k)
    \/ GetMessage

\* The Link when the host opens a session: the state after construction, or
\* the state after k stray 0 bytes have been received and answered with a
\* nack each, which leaves both cursors at k and everything else as new.
LinkInit ==
    /\ data = [i \in 0..(L - 1) |-> 0]
    /\ \E k \in 0..(L - 1) :
          /\ ptrs = [read |-> k, write |-> k]
          /\ lastGet = [call |-> "none", last |-> IF k = 0 THEN -1 ELSE 0]
    /\ accepted = <<>>
    /\ returned = <<>>
    /\ offered = 0
    /\ lastOp = [op |-> "new"]
    /\ rd = [pc |-> "idle"]
    /\ wr = [pc |-> "idle"]
    /\ msg_buffer = [i \in 0..(MAX_UPLINK_MSG_SIZE - 1) |-> 0]
    /\ msg_buffer_ptr = 0
    /\ wire = <<>>
    /\ tx = <<>>
    /\ sent = 0
    /\ noise = 0
    /\ cur = NoFrame
    /\ pending = 0
    /\ fault = FALSE
    /\ state = NewSequencerState(FALSE)
    /\ lastCmd = [op |-> "setup", idle |-> TRUE, log |-> <<>>,
                  settled |-> FALSE]
    /\ host = [pc |-> "off"]
    /\ cpu = [main |-> "off"]
    /\ rx = [pc |-> "off"]

SpecLink == LinkInit /\ [][LinkNext]_vars

\* ------------------------------------------------------ claims on the ring
\* C1: round trip. The elements returned by read so far, followed by the
\* elements a draining read returns now, are exactly the elements accepted by
\* write, in the same order, wherever the cursors are.
C1_RoundTrip == returned \o Readable = accepted

\* C2: backpressure. A write returns min(len(data), free space), free space
\* being L minus the unread elements; the counted elements, and only they,
\* are added behind the elements the buffer already held.
C2_Backpressure ==
    lastOp.op = "write" =>
        /\ lastOp.n = Min(Len(lastOp.src), L - lastOp.unread)
        /\ Readable = lastOp.before \o SubSeq(lastOp.src, 1, lastOp.n)

\* C3: delimiter read. read(target, Some(d)) returns the unread elements up to
\* and including the first d (or as many as the target holds) and nothing
\* after it; the rest stays for the next read.
C3_DelimiterRead ==
    (lastOp.op = "read" /\ lastOp.seek # NoSeek) =>
        /\ lastOp.out = SubSeq(lastOp.before, 1,
               Min(lastOp.tlen,
                   Min(Len(lastOp.before), FirstIndex(lastOp.before, lastOp.seek))))
        /\ lastOp.out \o Readable = lastOp.before

\* ------------------------------------------- RingBuffer, calls interleaved
\* RingBuffer::read up to its store-back: the cursors are snapshotted in one
\* critical section (util.rs:93) and the elements copied against the snapshot.
\* The early return of an empty snapshot ends the call without a store-back.
ReadBegin(tlen, seek) ==
    /\ rd.pc = "idle" /\ wr.pc = "idle"
    /\ LET r == read(data, ptrs, tlen, seek) IN
       /\ rd' = IF r.store
                THEN [pc |-> "copied", ptrs |-> r.ptrs, out |-> r.out,
                      tlen |-> tlen, seek |-> seek, before |-> Readable]
                ELSE [pc |-> "idle"]
       /\ lastOp' = IF r.store THEN lastOp
                    ELSE [op |-> "read", tlen |-> tlen, seek |-> seek,
                          out |-> r.out, before |-> Readable]
    /\ UNCHANGED <<data, ptrs, accepted, returned, offered, wr>>
    /\ UNCHANGED linkVars
    /\ UNCHANGED seqVars
    /\ UNCHANGED hostVars
    /\ UNCHANGED cpuVars

\* The store-back of RingBuffer::read (util.rs:115-117): the whole local
\* RingBufferPtrs value, read and write cursor, is stored.
ReadEnd ==
    /\ rd.pc = "copied"
    /\ ptrs' = rd.ptrs
    /\ returned' = returned \o rd.out
    /\ lastOp' = [op |-> "read", tlen |-> rd.tlen, seek |-> rd.seek,
                  out |-> rd.out, before |-> rd.before]
    /\ rd' = [pc |-> "idle"]
    /\ UNCHANGED <<data, accepted, offered, wr>>
    /\ UNCHANGED linkVars
    /\ UNCHANGED seqVars
    /\ UNCHANGED hostVars
    /\ UNCHANGED cpuVars

\* RingBuffer::write up to its store-back (util.rs:157-171).
WriteBegin(src) ==
    /\ rd.pc = "idle" /\ wr.pc = "idle"
    /\ offered + Len(src) <= MaxOffered
    /\ LET w == write(data, ptrs, src) IN
       /\ data' = w.data
       /\ offered' = offered + Len(src)
       /\ wr' = [pc |-> "copied", ptrs |-> w.ptrs, src |-> src, n |-> w.n,
                 unread |-> Len(accepted) - Len(returned), before |-> Readable]
    /\ UNCHANGED <<ptrs, accepted, returned, lastOp, rd>>
    /\ UNCHANGED linkVars
    /\ UNCHANGED seqVars
    /\ UNCHANGED hostVars
    /\ UNCHANGED cpuVars

\* The store-back of RingBuffer::write (util.rs:173-176).
WriteEnd ==
    /\ wr.pc = "copied"
    /\ ptrs' = wr.ptrs
    /\ accepted' = accepted \o SubSeq(wr.src, 1, wr.n)
    /\ lastOp' = [op |-> "write", src |-> wr.src, n |-> wr.n,
                  unread |-> wr.unread, before |-> wr.before]
    /\ wr' = [pc |-> "idle"]
    /\ UNCHANGED <<data, returned, offered, rd>>
    /\ UNCHANGED linkVars
    /\ UNCHANGED seqVars
    /\ UNCHANGED hostVars
    /\ UNCHANGED cpuVars

\* The consumer's read and the producer's write each run as begin and
\* store-back; between the two, one call of the other side may run to
\* completion (the interrupt preempting the foreground, and the reverse).
ConcNext ==
    \/ \E tlen \in 1..L, seek \in {NoSeek, 0} : ReadBegin(tlen, seek)
    \/ ReadEnd
    \/ \E src \in SeqsOf(Vals, 1, MaxWriteLen) :
          offered + Len(src) <= MaxConcOffered /\ WriteBegin(src)
    \/ WriteEnd
    \/ \E src \in SeqsOf(Vals, 1, MaxWriteLen) :
          /\ rd.pc = "copied"
          /\ offered + Len(src) <= MaxConcOffered
          /\ Write(src)
    \/ \E tlen \in 1..L, seek \in {NoSeek, 0} :
          wr.pc = "copied" /\ Read(tlen, seek)

SpecConc == Init /\ [][ConcNext]_vars

\* C4: producer/consumer linearizability. The store-back that ends a read
\* keeps the write cursor the producer has stored meanwhile, and the
\* store-back that ends a write keeps the read cursor the consumer has stored
\* meanwhile: both advances survive.
C4_CursorsKept ==
    [][/\ (rd.pc = "copied" /\ rd'.pc = "idle") => ptrs'.write = ptrs.write
       /\ (wr.pc = "copied" /\ wr'.pc = "idle") => ptrs'.read = ptrs.read]_vars

\* ------------------------------------------------------ claims on the Link
\* Number of elements of s equal to v.
RECURSIVE Count(_, _)
Count(s, v) ==
    IF s = <<>> THEN 0
    ELSE (IF Head(s) = v THEN 1 ELSE 0) + Count(Tail(s), v)

C6_OneReplyPerFrame ==
    lastGet.call = "get" =>
        /\ Len(lastGet.wrote) = Count(lastGet.got, 0)
        /\ lastGet.wrote = <<1>> <=> lastGet.ret # None
        /\ lastGet.wrote = <<0>> <=> (lastGet.terminated /\ lastGet.ret = None)
        /\ ~lastGet.terminated => (lastGet.wrote = <<>> /\ lastGet.ret = None)

\* C7: a decode failure is recovered locally. A call whose assembled run ends
\* with 0 and does not decode writes the one reply 0x00, returns None and
\* leaves msg_buffer_ptr = 0; and the well-formed frame that follows a run
\* that does not decode, whether it is sent after the nack or lies right
\* behind that run in the stream, is read apart from the run, returned and
\* acknowledged.
C7_FailureRecovered ==
    /\ (lastGet.call = "get" /\ lastGet.terminated /\ lastGet.ret = None) =>
          /\ lastGet.wrote = <<0>>
          /\ msg_buffer_ptr = 0
    /\ (lastGet.call = "get" /\ lastGet.of.afterBad) =>
          /\ ~lastGet.crossed
          /\ (lastGet.of.ahead = 0 /\ lastGet.terminated) =>
                /\ lastGet.ret = lastGet.of.msg
                /\ lastGet.wrote = <<1>>

\* C8: oversized frames are rejected. The assembly buffer never stays full:
\* the call that fills it without a terminator replies 0x00 and resets it.
C8_NeverStuck == msg_buffer_ptr < MAX_UPLINK_MSG_SIZE

\* C9: the assembly buffer is never overrun. msg_buffer_ptr stays within
\* 0..MAX_UPLINK_MSG_SIZE and no byte is stored outside msg_buffer.
C9_NoOverrun ==
    /\ msg_buffer_ptr \in 0..MAX_UPLINK_MSG_SIZE
    /\ DOMAIN msg_buffer = 0..(MAX_UPLINK_MSG_SIZE - 1)

\* A call has filled the assembly buffer to its last byte and stopped there,
\* leaving in the ring the bytes that did not fit.
C9_Witness ==
    /\ msg_buffer_ptr = MAX_UPLINK_MSG_SIZE
    /\ lastGet.call = "get"
    /\ lastGet.got # <<>>
    /\ lastGet.avail > Len(lastGet.got)

\* -------------------------------------------------------------- Sequencer
\* Capacities of Sequence (sequence.rs:4-5), scaled down.
MAX_SEQUENCE_LEN == 2
MAX_DIVN_CHANGES == 2
\* Largest fractional value, for_ticks, start_tick and chunk length of the
\* commands the model's host sends.
MaxFracn == 1
MaxTicks == 2
MaxStart == 1
MaxChunk == 2
\* Width of usize, scaled down: a wrapped value stays above every index.
UsizeBits == 4

\* The fractional values the model's host sends: the smallest and the largest.
FracnVals == {0, MaxFracn}

\* The PLLChange values (sequence.rs:8-17) the model's host sends. The host
\* offsets start_tick itself (build_sequence, software main.rs:166-167), so
\* the value on the wire is 0 for the first entry of a program and an
\* absolute index for a later one: the entries are those starting at 0, with
\* one or MaxTicks ticks, and the one-tick entry starting at MaxStart.
PLLChanges ==
    {c \in [for_ticks : {1, MaxTicks}, start_tick : {0, MaxStart},
            divn : {7}, vcosel : {FALSE}, divp : {1}, tim_us : {10}] :
        c.start_tick = 0 \/ c.for_ticks = 1}

\* The [u16; 32] of a PushFracn whose first values are c.
Pad(c) == c \o [j \in 1..(FRACN_CHUNK - Len(c)) |-> 0]

\* The commands handle_msg dispatches in the model.
SeqMsgs ==
    {[tag |-> t] : t \in {"Ping", "ClearBuffers", "StartNow", "StopNow"}}
    \cup {[tag |-> "SetLooping", b |-> TRUE], [tag |-> "EpochNow", t |-> 0],
          [tag |-> "StartAtEpoch", t |-> 0]}
    \cup {[tag |-> "PushPLLChange", ch |-> ch] : ch \in PLLChanges}
    \cup {[tag |-> "PushFracn", count |-> Len(c), values |-> Pad(c)] :
            c \in SeqsOf(FracnVals, 1, MaxChunk)}

\* The upload commands among them.
PushMsgs == {m \in SeqMsgs : m.tag \in {"PushFracn", "PushPLLChange"}}

\* A call that returned with state s / that panicked leaving state s.
Ok(s) == [st |-> s, ok |-> TRUE]
Panic(s) == [st |-> s, ok |-> FALSE]

\* DoubleBuffer::get_active: the slot the flag selects.
get_active(seqs) == IF seqs.active_0 THEN seqs.buffers[0] ELSE seqs.buffers[1]

\* DoubleBuffer::get_back: the index of the slot the returned reference
\* points to.
get_back(seqs) == IF seqs.active_0 THEN 0 ELSE 1

\* set_pllchange: the assertion on pll2on, the indexing of pllchange_buffer
\* and of fracn_buffer panic; the lock wait ends when the PLL reports ready.
set_pllchange(s) ==
    LET active == get_active(s.seqs)
        i == s.pllchangei
    IN  IF s.rcc.pll2on \/ i < 0 \/ i >= Len(active.pllchange_buffer)
        THEN Panic(s)
        ELSE LET change == active.pllchange_buffer[i + 1]
                 s1 == [s EXCEPT !.rcc.divp2en = TRUE,
                                 !.rcc.divn2 = change.divn,
                                 !.rcc.divp = change.divp,
                                 !.log = @ \o <<"mco2", "divp2en_on", "divr">>]
             IN  IF change.start_tick >= Len(active.fracn_buffer)
                 THEN Panic(s1)
                 ELSE Ok([s1 EXCEPT
                            !.rcc.fracn = active.fracn_buffer[change.start_tick + 1],
                            !.rcc.pll2fracen = TRUE,
                            !.rcc.pll2on = TRUE,
                            !.log = @ \o <<"fracen_off", "fracn", "fracen_on",
                                           "pll2on_on", "rdy">>])

\* A set_timer that leaves for_ticks ticks to go after the step.
set_timer_long(s, overflow_checks) ==
    LET change == get_active(s.seqs).pllchange_buffer[s.pllchangei + 1]
        s1 == [s EXCEPT !.tim.cnt = change.tim_us, !.tim.arr = change.tim_us,
                        !.log = @ \o <<"cnt", "arr">>]
    IN  Ok([s1 EXCEPT !.fracn_rem = change.for_ticks % (2 ^ UsizeBits),
                      !.fracn_i = change.start_tick,
                      !.tim.cen = TRUE,
                      !.log = Append(@, "cen_on")])

\* set_timer: for_ticks - 1 on a usize panics in a build with overflow checks
\* and wraps in one without.
set_timer(s, overflow_checks) ==
    LET change == get_active(s.seqs).pllchange_buffer[s.pllchangei + 1]
        s1 == [s EXCEPT !.tim.cnt = change.tim_us, !.tim.arr = change.tim_us,
                        !.log = @ \o <<"cnt", "arr">>]
    IN  IF change.for_ticks = 0 /\ overflow_checks
        THEN Panic(s1)
        ELSE Ok([s1 EXCEPT !.fracn_rem = (change.for_ticks - 1) % (2 ^ UsizeBits),
                           !.fracn_i = change.start_tick,
                           !.tim.cen = TRUE,
                           !.log = Append(@, "cen_on")])

\* A step that keeps the active slot at the loop boundary.
step_noflip(s, overflow_checks) ==
    IF ~s.is_running THEN Panic(s)
    ELSE
    LET s1 == [s EXCEPT !.pllchangei = @ + 1]
        boundary == s1.pllchangei = Len(get_active(s1.seqs).pllchange_buffer)
    IN  IF s1.pllchangei < 0 \/ (boundary /\ s1.uploading)
        THEN Panic(s1)
        ELSE LET s2 == [s1 EXCEPT
                          !.tim.cen = FALSE,
                          !.rcc.divp2en = FALSE,
                          !.rcc.pll2on = FALSE,
                          !.log = @ \o <<"cen_off", "divp2en_off", "pll2on_off">>]
                 r == set_pllchange(s2)
             IN  IF ~r.ok THEN r
                 ELSE set_timer([r.st EXCEPT !.rcc.pll2on = TRUE,
                                             !.rcc.divp1en = TRUE,
                                             !.log = @ \o <<"pll2on_on", "rdy",
                                                            "divp1en_on">>],
                                overflow_checks)

step(s, overflow_checks) ==
    IF ~s.is_running THEN Panic(s)
    ELSE
    LET s1 == [s EXCEPT !.pllchangei = @ + 1]
        boundary == s1.pllchangei = Len(get_active(s1.seqs).pllchange_buffer)
    IN  IF s1.pllchangei < 0 \/ (boundary /\ s1.uploading)
        THEN Panic(s1)
        ELSE LET s2 == [s1 EXCEPT
                          !.seqs.active_0 = IF boundary THEN ~@ ELSE @,
                          !.tim.cen = FALSE,
                          !.rcc.divp2en = FALSE,
                          !.rcc.pll2on = FALSE,
                          !.log = @ \o <<"cen_off", "divp2en_off", "pll2on_off">>]
                 r == set_pllchange(s2)
             IN  IF ~r.ok THEN r
                 ELSE set_timer([r.st EXCEPT !.rcc.pll2on = TRUE,
                                             !.rcc.divp1en = TRUE,
                                             !.log = @ \o <<"pll2on_on", "rdy",
                                                            "divp1en_on">>],
                                overflow_checks)

\* A stop that leaves the timer in one-shot mode.
stop_oneshot(s) ==
    [s EXCEPT !.is_running = FALSE, !.tim.opm = TRUE, !.tim.cen = FALSE,
              !.log = @ \o <<"opm_on", "cen_off">>]

\* stop: opm is enabled, cen cleared and opm disabled again in one call.
stop(s) ==
    [s EXCEPT !.is_running = FALSE, !.tim.opm = FALSE, !.tim.cen = FALSE,
              !.log = @ \o <<"opm_on", "cen_off", "opm_off">>]

\* A launch that starts the timer without the priming step.
launch_unprimed(s, overflow_checks) ==
    Ok([stop(s) EXCEPT !.pllchangei = -1, !.is_running = TRUE,
                       !.tim.cen = TRUE, !.log = @ \o <<"cen_on">>])

launch(s, overflow_checks) ==
    step([stop(s) EXCEPT !.pllchangei = -1, !.is_running = TRUE],
         overflow_checks)

\* A clear_buffers that also swaps the slots.
clear_buffers_swap(s) ==
    LET s1 == stop(s)
        b == get_back(s1.seqs)
    IN  [s1 EXCEPT !.seqs.buffers[b].fracn_buffer = <<>>,
                   !.seqs.buffers[b].pllchange_buffer = <<>>,
                   !.seqs.active_0 = ~@]

clear_buffers(s) ==
    LET s1 == stop(s)
        b == get_back(s1.seqs)
    IN  [s1 EXCEPT !.seqs.buffers[b].fracn_buffer = <<>>,
                   !.seqs.buffers[b].pllchange_buffer = <<>>]

\* A push_fracn that drops the values that do not fit.
push_fracn_drop(s, fracn) ==
    LET b == get_back(s.seqs)
        n == Min(Len(fracn),
                 MAX_SEQUENCE_LEN - Len(s.seqs.buffers[b].fracn_buffer))
    IN  Ok([s EXCEPT !.uploading = TRUE,
                     !.seqs.buffers[b].fracn_buffer = @ \o SubSeq(fracn, 1, n)])

\* push_fracn: the values are pushed one by one; the push that finds the Vec
\* full panics (unwrap), the earlier ones staying.
push_fracn(s, fracn) ==
    LET b == get_back(s.seqs)
        n == Min(Len(fracn),
                 MAX_SEQUENCE_LEN - Len(s.seqs.buffers[b].fracn_buffer))
        s1 == [s EXCEPT !.uploading = TRUE,
                        !.seqs.buffers[b].fracn_buffer = @ \o SubSeq(fracn, 1, n)]
    IN  IF n < Len(fracn) THEN Panic(s1) ELSE Ok(s1)

notify_upload_done(s) == [s EXCEPT !.uploading = FALSE]

\* A push_pllchange that rebases start_tick on the fracn_buffer length.
push_pllchange_rebased(s, change) ==
    LET b == get_back(s.seqs)
        s1 == [s EXCEPT !.uploading = TRUE]
        moved == [change EXCEPT !.start_tick =
                    @ + Len(s.seqs.buffers[b].fracn_buffer)]
    IN  IF Len(s.seqs.buffers[b].pllchange_buffer) >= MAX_DIVN_CHANGES
        THEN Panic(s1)
        ELSE Ok([s1 EXCEPT !.seqs.buffers[b].pllchange_buffer = Append(@, moved)])

push_pllchange(s, change) ==
    LET b == get_back(s.seqs)
        s1 == [s EXCEPT !.uploading = TRUE]
    IN  IF Len(s.seqs.buffers[b].pllchange_buffer) >= MAX_DIVN_CHANGES
        THEN Panic(s1)
        ELSE Ok([s1 EXCEPT !.seqs.buffers[b].pllchange_buffer = Append(@, change)])

\* A handle_msg whose arms for the commands without effect stop the
\* sequencer.
dispatch_stopping(s, msg, overflow_checks) ==
    CASE msg.tag = "PushPLLChange" -> push_pllchange(s, msg.ch)
      [] msg.tag = "PushFracn" ->
            IF msg.count > FRACN_CHUNK THEN Panic(s)
            ELSE push_fracn(s, SubSeq(msg.values, 1, msg.count))
      [] msg.tag = "ClearBuffers" -> Ok(clear_buffers(s))
      [] msg.tag = "StartNow" -> launch(s, overflow_checks)
      [] OTHER -> Ok(stop(s))

\* A handle_msg that clamps the count of a PushFracn to the 32 values.
dispatch_clamped(s, msg, overflow_checks) ==
    CASE msg.tag = "PushPLLChange" -> push_pllchange(s, msg.ch)
      [] msg.tag = "PushFracn" ->
            push_fracn(s, SubSeq(msg.values, 1, Min(msg.count, FRACN_CHUNK)))
      [] msg.tag = "ClearBuffers" -> Ok(clear_buffers(s))
      [] msg.tag = "StartNow" -> launch(s, overflow_checks)
      [] msg.tag = "StopNow" -> Ok(stop(s))
      [] OTHER -> Ok(s)

\* handle_msg (main.rs:84-124), each arm inside util::with: the result of
\* dispatching msg on sequencer state s.
dispatch(s, msg, overflow_checks) ==
    CASE msg.tag = "PushPLLChange" -> push_pllchange(s, msg.ch)
      [] msg.tag = "PushFracn" ->
            IF msg.count > FRACN_CHUNK THEN Panic(s)
            ELSE push_fracn(s, SubSeq(msg.values, 1, msg.count))
      [] msg.tag = "ClearBuffers" -> Ok(clear_buffers(s))
      [] msg.tag = "StartNow" -> launch(s, overflow_checks)
      [] msg.tag = "StopNow" -> Ok(stop(s))
      [] OTHER -> Ok(s)

\* The name lastCmd keeps for msg: the commands without an arm that touches
\* the sequencer go under one name.
OpOf(msg) ==
    IF msg.tag \in {"Ping", "SetLooping", "EpochNow", "StartAtEpoch"}
    THEN "Reserved" ELSE msg.tag

\* The handlers run on the sequencer state together with log, the register
\* accesses of the running handler in the order the code makes them.
Logged(s) ==
    [f \in DOMAIN s \cup {"log"} |-> IF f = "log" THEN <<>> ELSE s[f]]

Unlogged(s) == [f \in DOMAIN s \ {"log"} |-> s[f]]

handle_msg(msg, overflow_checks) ==
    /\ ~fault
    /\ LET r == dispatch(Logged(state), msg, overflow_checks) IN
        /\ state' = Unlogged(r.st)
        /\ fault' = ~r.ok
        /\ lastCmd' = [op |-> OpOf(msg), idle |-> ~state.is_running,
                       log |-> r.st.log,
                       settled |-> IF msg.tag = "StartNow" THEN TRUE
                                   ELSE IF msg \in PushMsgs THEN FALSE
                                   ELSE lastCmd.settled]
    /\ UNCHANGED ringVars
    /\ UNCHANGED hostVars
    /\ UNCHANGED cpuVars
    /\ UNCHANGED commVars

\* The hardware: the running timer reaches the end of its period, reloads
\* and raises the update flag.
TimerExpire ==
    /\ ~fault
    /\ state.tim.cen
    /\ ~state.tim.uif
    /\ state' = [state EXCEPT !.tim.uif = TRUE]
    /\ lastCmd' = [op |-> "expire", idle |-> ~state.is_running, log |-> <<>>,
                   settled |-> lastCmd.settled]
    /\ UNCHANGED ringVars
    /\ UNCHANGED hostVars
    /\ UNCHANGED cpuVars
    /\ UNCHANGED linkVars

\* A TIM2 body that does not look at is_running.
tick_always(s, overflow_checks) ==
    LET s1 == [s EXCEPT !.tim.uif = FALSE, !.log = Append(@, "uif_off")] IN
    IF s1.fracn_rem = 0 THEN step(s1, overflow_checks)
    ELSE LET s2 == [s1 EXCEPT !.fracn_i = @ + 1] IN
         IF s2.fracn_i >= Len(get_active(s2.seqs).fracn_buffer)
         THEN Panic(s2)
         ELSE Ok([s2 EXCEPT
                    !.rcc.fracn = get_active(s2.seqs).fracn_buffer[s2.fracn_i + 1],
                    !.rcc.pll2fracen = TRUE,
                    !.fracn_rem = @ - 1,
                    !.log = @ \o <<"fracen_off", "fracn", "fracen_on">>])

\* The TIM2 interrupt handler's body on state s whose uif is set.
tick(s, overflow_checks) ==
    LET s1 == [s EXCEPT !.tim.uif = FALSE, !.log = Append(@, "uif_off")] IN
    IF ~s1.is_running THEN Ok(s1)
    ELSE IF s1.fracn_rem = 0 THEN step(s1, overflow_checks)
    ELSE LET s2 == [s1 EXCEPT !.fracn_i = @ + 1] IN
         IF s2.fracn_i >= Len(get_active(s2.seqs).fracn_buffer)
         THEN Panic(s2)
         ELSE Ok([s2 EXCEPT
                    !.rcc.fracn = get_active(s2.seqs).fracn_buffer[s2.fracn_i + 1],
                    !.rcc.pll2fracen = TRUE,
                    !.fracn_rem = @ - 1,
                    !.log = @ \o <<"fracen_off", "fracn", "fracen_on">>])

TIM2(overflow_checks) ==
    /\ ~fault
    /\ state.tim.uif
    /\ LET r == tick(Logged(state), overflow_checks) IN
        /\ state' = Unlogged(r.st)
        /\ fault' = ~r.ok
        /\ lastCmd' = [op |-> "TIM2", idle |-> ~state.is_running,
                       log |-> r.st.log, settled |-> lastCmd.settled]
    /\ UNCHANGED ringVars
    /\ UNCHANGED hostVars
    /\ UNCHANGED cpuVars
    /\ UNCHANGED commVars

\* The builds that differ on msg: only launch reaches the subtraction of
\* set_timer from handle_msg.
Builds(msg) == IF msg.tag = "StartNow" THEN BOOLEAN ELSE {TRUE}

SeqNext ==
    \/ \E msg \in SeqMsgs : \E overflow_checks \in Builds(msg) :
            handle_msg(msg, overflow_checks)
    \/ TimerExpire
    \/ \E overflow_checks \in BOOLEAN : TIM2(overflow_checks)

\* The state after construction, with either value for the `uploading` field
\* that the initialiser of sequencer::setup leaves out.
SeqInit ==
    /\ data = [i \in 0..(L - 1) |-> 0]
    /\ ptrs = [read |-> 0, write |-> 0]
    /\ accepted = <<>>
    /\ returned = <<>>
    /\ offered = 0
    /\ lastOp = [op |-> "new"]
    /\ rd = [pc |-> "idle"]
    /\ wr = [pc |-> "idle"]
    /\ msg_buffer = [i \in 0..(MAX_UPLINK_MSG_SIZE - 1) |-> 0]
    /\ msg_buffer_ptr = 0
    /\ wire = <<>>
    /\ tx = <<>>
    /\ sent = 0
    /\ noise = 0
    /\ cur = [msg |-> [tag |-> "None"], idle |-> FALSE, afterBad |-> FALSE,
              ahead |-> 0]
    /\ lastGet = [call |-> "none", last |-> -1]
    /\ pending = 0
    /\ fault = FALSE
    /\ state \in {NewSequencerState(u) : u \in BOOLEAN}
    /\ lastCmd = [op |-> "setup", idle |-> TRUE, log |-> <<>>,
                  settled |-> FALSE]
    /\ host = [pc |-> "off"]
    /\ cpu = [main |-> "off"]
    /\ rx = [pc |-> "off"]

SpecSeq == SeqInit /\ [][SeqNext]_vars

\* C10: uploads go to the back slot only: a push_fracn or push_pllchange,
\* whether the sequencer is idle or running, leaves the active slot's
\* fracn_buffer and pllchange_buffer as they were.
C10_UploadsToBack ==
    [][(\E msg \in PushMsgs, overflow_checks \in BOOLEAN :
            handle_msg(msg, overflow_checks))
        => get_active(state'.seqs) = get_active(state.seqs)]_vars

\* The PushPLLChange commands.
PLLMsgs == {m \in SeqMsgs : m.tag = "PushPLLChange"}

\* C11: PLLChange relocation: a push_pllchange that returns has stored, as
\* the last entry of the pllchange_buffer of the slot get_back gives, the
\* submitted change with start_tick raised by the length that slot's
\* fracn_buffer had when the push was made.
C11_Relocation ==
    [][\A msg \in PLLMsgs, overflow_checks \in BOOLEAN :
          (handle_msg(msg, overflow_checks) /\ ~fault') =>
              LET b == get_back(state.seqs)
                  buf == state'.seqs.buffers[b].pllchange_buffer
              IN  /\ buf # <<>>
                  /\ buf[Len(buf)] =
                        [msg.ch EXCEPT !.start_tick =
                            @ + Len(state.seqs.buffers[b].fracn_buffer)]]_vars

\* C11 as the code has it: a push_pllchange that returns has appended the
\* change to the pllchange_buffer of the slot get_back gives with every field,
\* start_tick included, as submitted, whatever that slot's fracn_buffer holds.
C11_StoredAsSubmitted ==
    [][\A msg \in PLLMsgs, overflow_checks \in BOOLEAN :
          (handle_msg(msg, overflow_checks) /\ ~fault') =>
              LET b == get_back(state.seqs) IN
              state'.seqs.buffers[b].pllchange_buffer =
                  Append(state.seqs.buffers[b].pllchange_buffer, msg.ch)]_vars

\* A change with start_tick 0 has just been pushed behind fractional values
\* and is stored with start_tick 0.
C11_Witness ==
    /\ lastCmd.op = "PushPLLChange"
    /\ ~fault
    /\ LET slot == state.seqs.buffers[get_back(state.seqs)] IN
        /\ slot.fracn_buffer # <<>>
        /\ slot.pllchange_buffer # <<>>
        /\ slot.pllchange_buffer[Len(slot.pllchange_buffer)].start_tick = 0

\* C12: UploadDone clears uploading: after a push has set uploading, the
\* uplink command set holds a command whose dispatch leaves uploading false.
C12_UploadDoneClears ==
    (lastCmd.op \in {"PushFracn", "PushPLLChange"} /\ ~fault) =>
        \E msg \in SeqMsgs, overflow_checks \in BOOLEAN :
            ~dispatch(Logged(state), msg, overflow_checks).st.uploading

\* The slot that is not the active one.
other_slot(seqs) == IF seqs.active_0 THEN seqs.buffers[1] ELSE seqs.buffers[0]

\* C13: clear_buffers called while idle leaves the slot that is not active
\* with an empty fracn_buffer and pllchange_buffer, and leaves the active
\* slot's two lists and the active index as they were.
C13_ClearBack ==
    [][(handle_msg([tag |-> "ClearBuffers"], TRUE) /\ ~state.is_running) =>
          /\ other_slot(state'.seqs).fracn_buffer = <<>>
          /\ other_slot(state'.seqs).pllchange_buffer = <<>>
          /\ get_active(state'.seqs) = get_active(state.seqs)
          /\ state'.seqs.active_0 = state.seqs.active_0]_vars


\* The positions of register access e in log.
At(log, e) == {i \in 1..Len(log) : log[i] = e}

\* C14: launch primes before arming: when a launch made with at least one
\* PLLChange in the program to play returns, is_running holds, pllchangei is
\* 0, fracn_i is the first PLLChange's start_tick, fracn_rem its for_ticks - 1,
\* the synthesizer holds its dividers (divn, divp, vcosel) and the fractional
\* value at its start_tick, and the timer was enabled once, as the last
\* register access, after the dividers and the fractional value were written.
C14_LaunchPrimes ==
    [][\A overflow_checks \in BOOLEAN :
        (/\ handle_msg([tag |-> "StartNow"], overflow_checks)
         /\ ~fault'
         /\ Len(get_active(state.seqs).pllchange_buffer) >= 1)
        => LET first == get_active(state.seqs).pllchange_buffer[1]
               log == lastCmd'.log
           IN  /\ state'.is_running
               /\ state'.pllchangei = 0
               /\ state'.fracn_i = first.start_tick
               /\ state'.fracn_rem = first.for_ticks - 1
               /\ state'.rcc.divn2 = first.divn
               /\ state'.rcc.divp = first.divp
               /\ state'.rcc.pll2vcosel = first.vcosel
               /\ state'.rcc.fracn =
                    get_active(state.seqs).fracn_buffer[first.start_tick + 1]
               /\ At(log, "cen_on") = {Len(log)}
               /\ At(log, "divr") # {}
               /\ At(log, "fracn") # {}
               /\ state'.tim.cen]_vars


\* C15: loop wraparound: during the playback of a launched program of k >= 1
\* PLLChange entries, with no push made since the launch, the tick that
\* follows the last tick of the last entry brings pllchangei back to 0
\* without a fault.
C15_LoopWraps ==
    [][\A overflow_checks \in BOOLEAN :
        (/\ TIM2(overflow_checks)
         /\ lastCmd.settled
         /\ state.is_running
         /\ state.fracn_rem = 0
         /\ Len(get_active(state.seqs).pllchange_buffer) >= 1
         /\ state.pllchangei = Len(get_active(state.seqs).pllchange_buffer) - 1)
        => (~fault' /\ state'.pllchangei = 0)]_vars


\* A step made from the current state reaches the loop boundary: the launch
\* of an empty program, or the tick after the last tick of the last entry.
AtBoundary(tag) ==
    LET k == Len(get_active(state.seqs).pllchange_buffer) IN
    IF tag = "StartNow" THEN k = 0
    ELSE state.is_running /\ state.fracn_rem = 0 /\ state.pllchangei + 1 = k

\* C16: a loop boundary reached during an upload is fatal: when a step moves
\* pllchangei past the last entry of the active pllchange_buffer with
\* uploading set, the firmware faults and active_0 is not flipped; with
\* uploading clear, active_0 is flipped, once.
C16_BoundaryFatal ==
    [][\A overflow_checks \in BOOLEAN :
        (\/ handle_msg([tag |-> "StartNow"], overflow_checks)
               /\ AtBoundary("StartNow")
         \/ TIM2(overflow_checks) /\ AtBoundary("TIM2"))
        => IF state.uploading
           THEN fault' /\ state'.seqs.active_0 = state.seqs.active_0
           ELSE state'.seqs.active_0 = ~state.seqs.active_0]_vars

\* A tick has run into the loop boundary of a loaded program during an upload.
C16_Witness ==
    /\ lastCmd.op = "TIM2"
    /\ fault
    /\ state.uploading
    /\ state.pllchangei >= 1
    /\ state.pllchangei = Len(get_active(state.seqs).pllchange_buffer)


\* C17: swap deferral: when the tick handler reaches the active slot's loop
\* boundary with uploading set, no fault is raised, active_0 is unchanged and
\* the same slot goes on playing from its first entry.
C17_SwapDeferred ==
    [][\A overflow_checks \in BOOLEAN :
        (TIM2(overflow_checks) /\ AtBoundary("TIM2") /\ state.uploading)
        => /\ ~fault'
           /\ state'.seqs.active_0 = state.seqs.active_0
           /\ state'.is_running
           /\ state'.pllchangei = 0]_vars


\* C18: stop is idempotent: a stop made while is_running is false does not
\* fault and leaves is_running, pllchangei, fracn_i, fracn_rem, uploading,
\* active_0, both slots and the timer's cen and opm flags as they were.
C18_StopIdempotent ==
    [][(/\ \E overflow_checks \in BOOLEAN :
              handle_msg([tag |-> "StopNow"], overflow_checks)
        /\ ~state.is_running)
        => /\ ~fault'
           /\ state'.is_running = state.is_running
           /\ state'.pllchangei = state.pllchangei
           /\ state'.fracn_i = state.fracn_i
           /\ state'.fracn_rem = state.fracn_rem
           /\ state'.uploading = state.uploading
           /\ state'.seqs = state.seqs
           /\ state'.tim.cen = state.tim.cen
           /\ state'.tim.opm = state.tim.opm]_vars

\* A stop has been made on an idle sequencer that holds a program and had
\* been stopped before.
C18_Witness ==
    /\ lastCmd.op = "StopNow"
    /\ lastCmd.idle
    /\ ~fault
    /\ state.pllchangei = 0
    /\ state.rcc.pll2on
    /\ Len(get_active(state.seqs).pllchange_buffer) >= 1


\* C19: sequence capacity overflow is fatal: a push_fracn that would take the
\* target fracn_buffer past MAX_SEQUENCE_LEN, or a push_pllchange that would
\* take the target pllchange_buffer past MAX_DIVN_CHANGES, ends in a fault;
\* a push after which the firmware keeps running has appended every pushed
\* value to the target list.
C19_OverflowFatal ==
    [][\A msg \in PushMsgs :
        (\E overflow_checks \in BOOLEAN : handle_msg(msg, overflow_checks))
        => LET b == get_back(state.seqs)
               old == state.seqs.buffers[b]
               new == state'.seqs.buffers[b]
           IN  IF msg.tag = "PushFracn"
               THEN /\ Len(old.fracn_buffer) + msg.count > MAX_SEQUENCE_LEN
                        => fault'
                    /\ ~fault' => new.fracn_buffer =
                          old.fracn_buffer \o SubSeq(msg.values, 1, msg.count)
               ELSE /\ Len(old.pllchange_buffer) + 1 > MAX_DIVN_CHANGES
                        => fault'
                    /\ ~fault' => new.pllchange_buffer =
                          Append(old.pllchange_buffer, msg.ch)]_vars

\* A push_fracn of more values than the fracn_buffer had room for has ended
\* in a fault.
C19_Witness ==
    /\ lastCmd.op = "PushFracn"
    /\ fault
    /\ Len(state.seqs.buffers[get_back(state.seqs)].fracn_buffer)
          = MAX_SEQUENCE_LEN


\* C20: no received byte is silently dropped: while the firmware has not
\* faulted, every byte the receive interrupt took from the FIFO and
\* get_message has not yet read is still held by the ring buffer for it.
C20_NoByteDropped == ~fault => pending = Len(Readable)


\* ------------------------------------------------------------ host program
\* The upload session of the host (software main.rs:327-351) and its send
\* (main.rs:240-288), against a serial port whose reads return any byte, time
\* out or fail.

\* Most PushFracn chunks the uploaded sequence is cut into.
MaxHostChunks == 1
\* Most PLLChanges of the uploaded sequence.
MaxHostChanges == 1

\* const RETRIES in send.
RETRIES == 4

\* The messages main sends, in order: StopNow, ClearBuffers, send_seq's
\* PushFracn chunks and then its PushPLLChanges, StartNow.
Session(chunks, changes) ==
    <<"StopNow", "ClearBuffers">>
        \o [j \in 1..chunks |-> "PushFracn"]
        \o [j \in 1..changes |-> "PushPLLChange"]
        \o <<"StartNow">>

HostSession == Session(host.chunks, host.changes)

\* send_seq unwraps the result of send; main drops it.
Unwrapped(tag) == tag \in {"PushFracn", "PushPLLChange"}

NewHost(chunks, changes) ==
    [pc |-> "main", i |-> 1, chunks |-> chunks, changes |-> changes,
     numtry |-> 0, sends |-> 0, read_buffer |-> 0, lastRead |-> "none",
     res |-> "none", unacked |-> FALSE]

\* The host is inside send, between its port operations.
InSend == host.pc \in {"write", "read"}

\* A loop condition of send that allows one more try.
MayTry_more(numtry) == numtry <= RETRIES

\* The loop condition of send.
MayTry(numtry) == numtry < RETRIES

\* send returns res to its caller: send_seq panics on Err (unwrap), main goes
\* on to its next statement whatever the result.
Return(h, res) ==
    IF res = "Err" /\ Unwrapped(HostSession[h.i])
    THEN [h EXCEPT !.pc = "panic", !.res = res, !.unacked = TRUE]
    ELSE [h EXCEPT !.pc = IF h.i = Len(HostSession) THEN "exit" ELSE "main",
                   !.i = @ + 1,
                   !.res = res,
                   !.unacked = @ \/ res = "Err"]

\* main (or send_seq) calls send for the next message of the session: the
\* message is encoded (fits: it fits in MAX_UPLINK_MSG_SIZE bytes, which the
\* three bytes of a message without fields always do), the input is cleared
\* (cleared: port.clear succeeds; its result is unwrapped) and the loop is
\* entered.
HostSend(fits, cleared) ==
    /\ host.pc = "main"
    /\ fits \/ Unwrapped(HostSession[host.i])
    /\ LET h == [host EXCEPT !.numtry = 0, !.sends = 0, !.read_buffer = 0,
                              !.lastRead = "none", !.res = "none"]
       IN  host' = IF ~fits THEN Return(h, "Err")
                   ELSE IF ~cleared THEN [h EXCEPT !.pc = "panic"]
                   ELSE IF MayTry(h.numtry) THEN [h EXCEPT !.pc = "write"]
                   ELSE Return(h, "Err")
    /\ UNCHANGED ringVars
    /\ UNCHANGED linkVars
    /\ UNCHANGED seqVars
    /\ UNCHANGED cpuVars

\* port.write(data) and flush of one try (wrote: the write succeeds; its
\* result is unwrapped).
HostWrite(wrote) ==
    /\ host.pc = "write"
    /\ host' = IF ~wrote THEN [host EXCEPT !.pc = "panic"]
               ELSE [host EXCEPT !.pc = "read", !.sends = @ + 1,
                                 !.read_buffer = 0]
    /\ UNCHANGED ringVars
    /\ UNCHANGED linkVars
    /\ UNCHANGED seqVars
    /\ UNCHANGED cpuVars

\* What port.read gives: one byte, a timeout, or another I/O error.
Reads ==
    {[kind |-> "byte", b |-> b] : b \in 0..MaxByte}
        \cup {[kind |-> "timeout", b |-> 0], [kind |-> "error", b |-> 0]}

\* port.read of one try and the rest of the loop body.
HostRead(r) ==
    /\ host.pc = "read"
    /\ LET h == [host EXCEPT !.lastRead = r.kind,
                              !.read_buffer = IF r.kind = "byte" THEN r.b
                                              ELSE @]
       IN  host' =
             IF r.kind = "error" THEN Return(h, "Err")
             ELSE IF h.read_buffer # 0 THEN Return(h, "Ok")
             ELSE LET h1 == [h EXCEPT !.numtry = @ + 1] IN
                  IF MayTry(h1.numtry) THEN [h1 EXCEPT !.pc = "write"]
                  ELSE Return(h1, "Err")
    /\ UNCHANGED ringVars
    /\ UNCHANGED linkVars
    /\ UNCHANGED seqVars
    /\ UNCHANGED cpuVars

HostNext ==
    \/ \E fits \in BOOLEAN, cleared \in BOOLEAN : HostSend(fits, cleared)
    \/ \E wrote \in BOOLEAN : HostWrite(wrote)
    \/ \E r \in Reads : HostRead(r)

\* The firmware side as after setup; the host at the start of its session with
\* a sequence of any size within the bounds.
HostInit ==
    /\ data = [i \in 0..(L - 1) |-> 0]
    /\ ptrs = [read |-> 0, write |-> 0]
    /\ accepted = <<>>
    /\ returned = <<>>
    /\ offered = 0
    /\ lastOp = [op |-> "new"]
    /\ rd = [pc |-> "idle"]
    /\ wr = [pc |-> "idle"]
    /\ msg_buffer = [i \in 0..(MAX_UPLINK_MSG_SIZE - 1) |-> 0]
    /\ msg_buffer_ptr = 0
    /\ wire = <<>>
    /\ tx = <<>>
    /\ sent = 0
    /\ noise = 0
    /\ cur = [msg |-> [tag |-> "None"], idle |-> FALSE, afterBad |-> FALSE,
              ahead |-> 0]
    /\ lastGet = [call |-> "none", last |-> -1]
    /\ pending = 0
    /\ fault = FALSE
    /\ state = NewSequencerState(FALSE)
    /\ lastCmd = [op |-> "setup", idle |-> TRUE, log |-> <<>>,
                  settled |-> FALSE]
    /\ host \in {NewHost(chunks, changes) :
                    chunks \in 0..MaxHostChunks, changes \in 0..MaxHostChanges}
    /\ cpu = [main |-> "off"]
    /\ rx = [pc |-> "off"]

\* The host process keeps running: every port operation returns, a read at
\* the latest when the port's timeout of 0.5 s expires.
SpecHost == HostInit /\ [][HostNext]_vars /\ WF_vars(HostNext)

\* C21: host retry is bounded: one send transmits the frame at most RETRIES
\* times; after a read of 0x00 and after a read timeout it transmits again
\* while tries are left; it returns Ok as soon as a read gives an acknowledge
\* (a non-zero byte) and Err after the last try without one; it always
\* ends (by returning, or by the panic of a failed port operation).
C21_RetryBounded ==
    /\ [](host.sends <= RETRIES)
    /\ [][host.pc = "read" =>
            LET noack == \/ host'.lastRead = "timeout"
                         \/ host'.lastRead = "byte" /\ host'.read_buffer = 0
                ack == host'.lastRead = "byte" /\ host'.read_buffer # 0
            IN  /\ ack => host'.pc \notin {"write", "read"} /\ host'.res = "Ok"
                /\ (noack /\ host.sends < RETRIES)
                      => host'.pc = "write" /\ host'.i = host.i
                /\ (noack /\ host.sends = RETRIES)
                      => host'.pc \notin {"write", "read"} /\ host'.res = "Err"
         ]_vars
    /\ [][(host.pc = "write" /\ host'.pc # "panic")
            => host'.pc = "read" /\ host'.sends = host.sends + 1]_vars
    /\ (InSend ~> ~InSend)

\* A send has returned Err after RETRIES transmissions, the last read having
\* timed out.
C21_Witness ==
    /\ host.pc \in {"main", "exit", "panic"}
    /\ host.res = "Err"
    /\ host.sends = RETRIES
    /\ host.numtry = RETRIES
    /\ host.lastRead = "timeout"


\* C22: retry exhaustion is fatal for the host: once a send of the session
\* has returned Err, the host sends no later message of the session.
C22_AbortOnFailure == InSend => ~host.unacked


\* The commands whose arm in handle_msg does not touch the sequencer.
ReservedMsgs == {m \in SeqMsgs : OpOf(m) = "Reserved"}

\* C23: reserved commands are no-ops: handling Ping, SetLooping, EpochNow or
\* StartAtEpoch does not fault and leaves the whole sequencer state as it
\* was (is_running, pllchangei, fracn_i, fracn_rem, uploading, active_0, both
\* slots, and the timer and synthesizer registers).
C23_ReservedNoOp ==
    [][\A msg \in ReservedMsgs :
        (\E overflow_checks \in BOOLEAN : handle_msg(msg, overflow_checks))
        => ~fault' /\ state' = state]_vars

\* A reserved command has been handled during playback.
C23_Witness ==
    /\ lastCmd.op = "Reserved"
    /\ ~lastCmd.idle
    /\ state.is_running
    /\ ~fault


\* The value pllchangei has when a step made by the current handler starts:
\* launch resets it to -1 first.
StepFrom(tag) == IF tag = "StartNow" THEN -1 ELSE state.pllchangei

C25_FlipOnlyAtBoundary ==
    /\ [](notify_upload_done(state).seqs.active_0 = state.seqs.active_0)
    /\ [][state'.seqs.active_0 # state.seqs.active_0
            => \/ lastCmd'.op = "StartNow" /\ AtBoundary("StartNow")
               \/ lastCmd'.op = "TIM2" /\ AtBoundary("TIM2")]_vars

\* The slots have been swapped, by the launch of an empty program.
C25_Witness ==
    /\ ~state.seqs.active_0
    /\ lastCmd.op = "StartNow"
    /\ state.pllchangei = 0


\* C26: stale ticks are ignored: a TIM2 interrupt handled while is_running is
\* false does not fault and leaves is_running, pllchangei, fracn_i, fracn_rem,
\* uploading, active_0, both slots and the synthesizer registers as they were;
\* and while is_running is false the tick timer is not counting.
C26_StaleTickIgnored ==
    /\ [](~state.is_running => ~state.tim.cen)
    /\ [][\A overflow_checks \in BOOLEAN :
        (TIM2(overflow_checks) /\ ~state.is_running)
        => /\ ~fault'
           /\ state'.is_running = state.is_running
           /\ state'.pllchangei = state.pllchangei
           /\ state'.fracn_i = state.fracn_i
           /\ state'.fracn_rem = state.fracn_rem
           /\ state'.uploading = state.uploading
           /\ state'.seqs = state.seqs
           /\ state'.rcc = state.rcc]_vars

\* The interrupt of a tick that was pending when the sequencer was stopped
\* has been handled.
C26_Witness ==
    /\ lastCmd.op = "TIM2"
    /\ lastCmd.idle
    /\ ~state.is_running
    /\ state.rcc.pll2on
    /\ ~fault


C28_StepPrograms ==
    [][\A tag \in {"StartNow", "TIM2"} : \A overflow_checks \in BOOLEAN :
        (/\ IF tag = "StartNow"
            THEN handle_msg([tag |-> "StartNow"], overflow_checks)
            ELSE TIM2(overflow_checks) /\ state.is_running
                    /\ state.fracn_rem = 0
         /\ ~fault')
        => LET active == get_active(state'.seqs)
               c == active.pllchange_buffer[state'.pllchangei + 1]
           IN  /\ state'.rcc.divn2 = c.divn
               /\ state'.rcc.divp = c.divp
               /\ state'.rcc.pll2vcosel = c.vcosel
               /\ state'.rcc.fracn = active.fracn_buffer[c.start_tick + 1]
               /\ state'.tim.arr = c.tim_us
               /\ state'.tim.cnt = c.tim_us]_vars


\* The synthesizer bits a register access of log changes: out is PLL2's P
\* output enable (divp2en), on is pll2on, locked is TRUE once pll2rdy has been
\* seen set after the last switch-on.
Effect(r, e) ==
    CASE e = "divp2en_off" -> [r EXCEPT !.out = FALSE]
      [] e = "divp2en_on" -> [r EXCEPT !.out = TRUE]
      [] e = "pll2on_off" -> [r EXCEPT !.on = FALSE, !.locked = FALSE]
      [] e = "pll2on_on" -> [r EXCEPT !.on = TRUE]
      [] e = "rdy" -> [r EXCEPT !.locked = r.on]
      [] OTHER -> r

\* The synthesizer bits after the first i register accesses of log, from r0.
RECURSIVE RegsAfter(_, _, _)
RegsAfter(log, r0, i) ==
    IF i = 0 THEN r0 ELSE Effect(RegsAfter(log, r0, i - 1), log[i])

\* Every position of a comes before every position of b.
Before(a, b) == \A i \in a : \A j \in b : i < j

\* C29: step is glitch-free in its ordering: in a handler that completes a
\* step the timer is stopped and the synthesizer output disabled, then the
\* dividers and the first fractional value are written, the synthesizer is
\* switched on and its lock observed, then the output is enabled again, then
\* the timer's reload value and counter are written and the timer started;
\* from the output's disabling on, the output is never enabled while the
\* synthesizer is off or not locked; and the output enabled at the end is the
\* one that was disabled.
C29_GlitchFree ==
    [][\A tag \in {"StartNow", "TIM2"} : \A overflow_checks \in BOOLEAN :
        (/\ IF tag = "StartNow"
            THEN handle_msg([tag |-> "StartNow"], overflow_checks)
            ELSE TIM2(overflow_checks) /\ state.is_running
                    /\ state.fracn_rem = 0
         /\ ~fault')
        => LET log == lastCmd'.log
               r0 == [out |-> state.rcc.divp2en, on |-> state.rcc.pll2on,
                      locked |-> state.rcc.pll2on]
               off == At(log, "divp2en_off")
           IN  /\ off # {}
               /\ At(log, "divp2en_on") # {}
               /\ At(log, "divp1en_on") = {}
               /\ At(log, "cen_off") # {}
               /\ \E j \in At(log, "cen_off") : Before({j}, At(log, "divr"))
               /\ Before(off, At(log, "divr"))
               /\ Before(At(log, "divr") \cup At(log, "fracn"),
                         At(log, "pll2on_on"))
               /\ Before(At(log, "divr"), At(log, "divp2en_on"))
               /\ \E j \in At(log, "rdy") : Before({j}, At(log, "divp2en_on"))
               /\ Before(At(log, "divp2en_on"),
                         At(log, "cnt") \cup At(log, "arr"))
               /\ Before(At(log, "cnt") \cup At(log, "arr"), At(log, "cen_on"))
               /\ \A i \in 1..Len(log) :
                    (\E j \in off : j <= i) =>
                        LET r == RegsAfter(log, r0, i) IN
                        r.out => (r.on /\ r.locked)]_vars


\* C30: PLLChange invariant of stored programs: whatever PushFracn,
\* PushPLLChange and ClearBuffers commands were sent, every PLLChange of the
\* slot being played has for_ticks >= 1 and start_tick + for_ticks within the
\* length of that slot's fracn_buffer, and fracn_i is an index of it.
C30_StoredProgramsValid ==
    (state.is_running /\ ~fault) =>
        LET active == get_active(state.seqs) IN
        /\ \A i \in 1..Len(active.pllchange_buffer) :
              LET c == active.pllchange_buffer[i] IN
              /\ c.for_ticks >= 1
              /\ c.start_tick + c.for_ticks <= Len(active.fracn_buffer)
        /\ state.fracn_i < Len(active.fracn_buffer)


\* C31: stop is cooperative: a stop made while a tick period is counting (the
\* timer enabled, its expiry not yet reached) sets is_running to false and
\* leaves the timer enabled in one-shot mode, so that the period runs to its
\* expiry; the call does not clear the timer's enable itself.
C31_StopCooperative ==
    [][(/\ \E overflow_checks \in BOOLEAN :
              handle_msg([tag |-> "StopNow"], overflow_checks)
        /\ state.tim.cen
        /\ ~state.tim.uif)
        => /\ ~state'.is_running
           /\ state'.tim.opm
           /\ state'.tim.cen
           /\ At(lastCmd'.log, "cen_off") = {}]_vars


\* ------------------------------------------------------- execution contexts
\* The foreground loop (firmware main.rs:145-155), the USART3 and TIM2
\* interrupt handlers and the critical sections of util::with (util.rs:28-34)
\* on one core. No interrupt priority is set, so a handler is not preempted
\* by the other one.

IRQs == {"USART3", "TIM2"}

NewCpu ==
    [main |-> "loop", isr |-> "none", ipc |-> "none", primask |-> FALSE,
     saved |-> <<>>, owner |-> [comm |-> "none", seq |-> "none"],
     pend |-> {}, half |-> FALSE, seenHalf |-> FALSE, panic |-> FALSE,
     acc |-> [cell |-> "none", by |-> "none", inWith |-> TRUE,
              held |-> "none"]]

\* The context that is executing.
Running(c) == IF c.isr = "none" THEN "main" ELSE c.isr

\* An interrupt::free entry that leaves the interrupts enabled.
free_enter_open(c) == [c EXCEPT !.saved = Append(@, c.primask)]

\* cortex_m::interrupt::free, entry: PRIMASK is read and the interrupts are
\* disabled.
free_enter(c) == [c EXCEPT !.saved = Append(@, c.primask), !.primask = TRUE]

\* cortex_m::interrupt::free, exit: the interrupts are enabled again if they
\* were enabled at the entry.
free_exit(c) ==
    [c EXCEPT !.primask = c.saved[Len(c.saved)],
              !.saved = SubSeq(@, 1, Len(@) - 1)]

\* util::with, entry: interrupt::free, then RefCell::borrow_mut of the cell,
\* which panics when the cell is borrowed.
with_enter(c, cell) ==
    LET c1 == free_enter(c) IN
    IF c1.owner[cell] # "none" THEN [c1 EXCEPT !.panic = TRUE]
    ELSE [c1 EXCEPT !.owner[cell] = Running(c)]

\* util::with, exit: the borrow ends, then interrupt::free returns.
with_exit(c, cell) == free_exit([c EXCEPT !.owner[cell] = "none"])

\* The running context touches cell: inWith tells whether it holds the borrow
\* of the cell, held who held it at that moment.
Access(c, cell) ==
    [c EXCEPT !.acc = [cell |-> cell, by |-> Running(c),
                       inWith |-> c.owner[cell] = Running(c),
                       held |-> c.owner[cell]]]

\* The hardware raises interrupt i.
Raise(i) ==
    /\ cpu.main # "off"
    /\ ~cpu.panic
    /\ i \notin cpu.pend
    /\ cpu' = [cpu EXCEPT !.pend = @ \cup {i}]
    /\ UNCHANGED ringVars
    /\ UNCHANGED linkVars
    /\ UNCHANGED seqVars
    /\ UNCHANGED hostVars
    /\ UNCHANGED rx

\* The core takes pending interrupt i: interrupts are enabled and no handler
\* is running.
IsrEnter(i) ==
    /\ cpu.main # "off"
    /\ ~cpu.panic
    /\ cpu.isr = "none"
    /\ ~cpu.primask
    /\ i \in cpu.pend
    /\ cpu' = [cpu EXCEPT !.isr = i, !.ipc = "entry"]
    /\ UNCHANGED ringVars
    /\ UNCHANGED linkVars
    /\ UNCHANGED seqVars
    /\ UNCHANGED hostVars
    /\ UNCHANGED rx

\* One step of the foreground loop: with(comm_state, get_message), whose ring
\* read makes an interrupt::free of its own, then for a message handle_msg,
\* whose closure over the sequencer state makes its writes one after the
\* other (launch: pllchangei = -1 ... end of step).
MainStep(some) ==
    /\ cpu.main # "off"
    /\ ~cpu.panic
    /\ cpu.isr = "none"
    /\ cpu' =
        CASE cpu.main = "loop" ->
                [with_enter(cpu, "comm") EXCEPT !.main = "get_message"]
          [] cpu.main = "get_message" ->
                [free_enter(Access(cpu, "comm")) EXCEPT !.main = "ring_read"]
          [] cpu.main = "ring_read" ->
                [free_exit(cpu) EXCEPT !.main = "decode"]
          [] cpu.main = "decode" ->
                [with_exit(Access(cpu, "comm"), "comm") EXCEPT
                    !.main = IF some THEN "handle_msg" ELSE "loop"]
          [] cpu.main = "handle_msg" ->
                [with_enter(cpu, "seq") EXCEPT !.main = "command"]
          [] cpu.main = "command" ->
                [Access(cpu, "seq") EXCEPT !.main = "command_2", !.half = TRUE]
          [] cpu.main = "command_2" ->
                [with_exit([Access(cpu, "seq") EXCEPT !.half = FALSE], "seq")
                    EXCEPT !.main = "loop"]
    /\ UNCHANGED ringVars
    /\ UNCHANGED linkVars
    /\ UNCHANGED seqVars
    /\ UNCHANGED hostVars
    /\ UNCHANGED rx

\* One step of the running handler. USART3 (comm.rs:182-195, usart3_rx
\* 119-139): the FIFO is read inside with(&COMM_STATE), then rx_buffer.write
\* is called on the pointer RX_BUFFER, which points into CommState, outside
\* with. TIM2 (sequencer.rs:270-302): the whole body is inside
\* with(&SEQUENCER_STATE).
IsrStep ==
    /\ cpu.main # "off"
    /\ ~cpu.panic
    /\ cpu.isr # "none"
    /\ cpu' =
        CASE cpu.isr = "USART3" /\ cpu.ipc = "entry" ->
                [with_enter(cpu, "comm") EXCEPT !.ipc = "fifo"]
          [] cpu.isr = "USART3" /\ cpu.ipc = "fifo" ->
                [with_exit(Access(cpu, "comm"), "comm") EXCEPT
                    !.ipc = "write", !.pend = @ \ {"USART3"}]
          [] cpu.isr = "USART3" /\ cpu.ipc = "write" ->
                [Access(cpu, "comm") EXCEPT !.isr = "none", !.ipc = "none"]
          [] cpu.isr = "TIM2" /\ cpu.ipc = "entry" ->
                [with_enter(cpu, "seq") EXCEPT !.ipc = "body"]
          [] cpu.isr = "TIM2" /\ cpu.ipc = "body" ->
                [with_exit(Access(cpu, "seq"), "seq") EXCEPT
                    !.isr = "none", !.ipc = "none", !.pend = @ \ {"TIM2"},
                    !.seenHalf = @ \/ cpu.half]
    /\ UNCHANGED ringVars
    /\ UNCHANGED linkVars
    /\ UNCHANGED seqVars
    /\ UNCHANGED hostVars
    /\ UNCHANGED rx

CellNext ==
    \/ \E i \in IRQs : Raise(i)
    \/ \E i \in IRQs : IsrEnter(i)
    \/ \E some \in BOOLEAN : MainStep(some)
    \/ IsrStep

\* The firmware after comm::setup and sequencer::setup, at the top of the
\* foreground loop with the interrupts enabled.
CellInit ==
    /\ data = [i \in 0..(L - 1) |-> 0]
    /\ ptrs = [read |-> 0, write |-> 0]
    /\ accepted = <<>>
    /\ returned = <<>>
    /\ offered = 0
    /\ lastOp = [op |-> "new"]
    /\ rd = [pc |-> "idle"]
    /\ wr = [pc |-> "idle"]
    /\ msg_buffer = [i \in 0..(MAX_UPLINK_MSG_SIZE - 1) |-> 0]
    /\ msg_buffer_ptr = 0
    /\ wire = <<>>
    /\ tx = <<>>
    /\ sent = 0
    /\ noise = 0
    /\ cur = [msg |-> [tag |-> "None"], idle |-> FALSE, afterBad |-> FALSE,
              ahead |-> 0]
    /\ lastGet = [call |-> "none", last |-> -1]
    /\ pending = 0
    /\ fault = FALSE
    /\ state = NewSequencerState(FALSE)
    /\ lastCmd = [op |-> "setup", idle |-> TRUE, log |-> <<>>,
                  settled |-> FALSE]
    /\ host = [pc |-> "off"]
    /\ cpu = NewCpu
    /\ rx = [pc |-> "off"]

SpecCell == CellInit /\ [][CellNext]_vars

\* The foreground loop is inside a with closure over cell.
MainIn(cell) ==
    IF cell = "comm" THEN cpu.main \in {"get_message", "ring_read", "decode"}
    ELSE cpu.main \in {"command", "command_2"}

\* The running handler is inside a with closure over cell.
IsrIn(cell) ==
    IF cell = "comm" THEN cpu.isr = "USART3" /\ cpu.ipc = "fifo"
    ELSE cpu.isr = "TIM2" /\ cpu.ipc = "body"

\* C32: SharedCell mutual exclusion: every access to SequencerState and to
\* CommState is made inside a with closure over that cell with the interrupts
\* disabled; at most one closure over a cell is executing; no interrupt
\* handler sees the sequencer state half-updated; no closure enters with on
\* a cell that is borrowed.
C32_AllInsideWith ==
    /\ cpu.acc.inWith
    /\ \A cell \in {"comm", "seq"} :
          /\ ~(MainIn(cell) /\ IsrIn(cell))
          /\ (MainIn(cell) \/ IsrIn(cell)) => cpu.primask
    /\ ~cpu.seenHalf
    /\ ~cpu.panic

\* C32, as the code has it: the accesses are made inside a with closure over
\* the cell, but for the receive interrupt's rx_buffer.write, which is made
\* outside with while no closure over CommState is executing; the closures
\* run with the interrupts disabled, at most one per cell; no handler sees
\* the sequencer state half-updated; no closure enters with on a borrowed
\* cell.
C32_Exclusive ==
    /\ ~cpu.acc.inWith =>
          /\ cpu.acc.by = "USART3"
          /\ cpu.acc.cell = "comm"
          /\ cpu.acc.held = "none"
    /\ \A cell \in {"comm", "seq"} :
          /\ ~(MainIn(cell) /\ IsrIn(cell))
          /\ (MainIn(cell) \/ IsrIn(cell)) => cpu.primask
    /\ ~cpu.seenHalf
    /\ ~cpu.panic

\* Both interrupts are pending while the foreground holds the sequencer
\* state half-updated, and none is served.
C32_Witness ==
    /\ cpu.main = "command_2"
    /\ cpu.half
    /\ cpu.pend = IRQs
    /\ cpu.isr = "none"


\* C33: RingBuffer emptiness: the read and write cursors are equal if and only
\* if no byte is unread (bytes accepted by write minus bytes returned by
\* read), and a write that is accepted in full never leaves the cursors equal.
C33_EmptyIffEqual ==
    /\ (ptrs.read = ptrs.write) <=> (Len(accepted) - Len(returned) = 0)
    /\ (/\ lastOp.op = "write"
        /\ lastOp.n = Len(lastOp.src)
        /\ lastOp.n > 0) => ptrs.read # ptrs.write


\* ------------------------------------------------------- receive interrupt
\* One run of usart3_rx (comm.rs:119-139) at the grain of its loop: the bytes
\* are numbered by arrival, the FIFO keeps receiving while the handler runs.
\* The ring buffer of 512 bytes that takes the batch is the one of usart3_rx
\* above and is not repeated here.

\* Bytes that arrive in all.
MaxArrived == 18

\* A byte arrives in the hardware FIFO.
Arrive ==
    /\ rx.pc \in {"idle", "loop"}
    /\ rx.arrived < MaxArrived
    /\ rx' = [rx EXCEPT !.arrived = @ + 1, !.fifo = Append(@, rx.arrived + 1)]
    /\ UNCHANGED <<ringVars, linkVars, seqVars, hostVars, cpu>>

\* USART3 is taken (RXFNE is set): usart3_rx starts with a new local buffer.
DrainEnter ==
    /\ rx.pc = "idle"
    /\ rx.fifo # <<>>
    /\ rx' = [rx EXCEPT !.pc = "loop", !.buffer = <<>>]
    /\ UNCHANGED <<ringVars, linkVars, seqVars, hostVars, cpu>>

\* One evaluation of the loop condition and, when it holds, of the body:
\* while rxfne && buffer.len() <= buffer.capacity() { buffer.push(..).unwrap() }
\* push fails on a full Vec and unwrap panics.
DrainStep ==
    /\ rx.pc = "loop"
    /\ rx' =
        IF rx.fifo # <<>> /\ Len(rx.buffer) <= RX_BATCH
        THEN IF Len(rx.buffer) < RX_BATCH
             THEN [rx EXCEPT !.buffer = Append(@, Head(rx.fifo)),
                             !.fifo = Tail(@)]
             ELSE [rx EXCEPT !.fifo = Tail(@), !.pc = "panic"]
        ELSE [rx EXCEPT !.pc = "write"]
    /\ UNCHANGED <<ringVars, linkVars, seqVars, hostVars, cpu>>

\* rx_buffer.write(buffer.as_slice()) and the return of the handler.
DrainDone ==
    /\ rx.pc = "write"
    /\ rx' = [rx EXCEPT !.pc = "idle", !.moved = @ \o rx.buffer,
                        !.batches = @ + 1]
    /\ UNCHANGED <<ringVars, linkVars, seqVars, hostVars, cpu>>

DrainNext ==
    \/ Arrive
    \/ DrainEnter
    \/ DrainStep
    \/ DrainDone

\* The receiver enabled by comm::setup, nothing received.
DrainInit ==
    /\ data = [i \in 0..(L - 1) |-> 0]
    /\ ptrs = [read |-> 0, write |-> 0]
    /\ accepted = <<>>
    /\ returned = <<>>
    /\ offered = 0
    /\ lastOp = [op |-> "new"]
    /\ rd = [pc |-> "idle"]
    /\ wr = [pc |-> "idle"]
    /\ msg_buffer = [i \in 0..(MAX_UPLINK_MSG_SIZE - 1) |-> 0]
    /\ msg_buffer_ptr = 0
    /\ wire = <<>>
    /\ tx = <<>>
    /\ sent = 0
    /\ noise = 0
    /\ cur = [msg |-> [tag |-> "None"], idle |-> FALSE, afterBad |-> FALSE,
              ahead |-> 0]
    /\ lastGet = [call |-> "none", last |-> -1]
    /\ pending = 0
    /\ fault = FALSE
    /\ state = NewSequencerState(FALSE)
    /\ lastCmd = [op |-> "setup", idle |-> TRUE, log |-> <<>>,
                  settled |-> FALSE]
    /\ host = [pc |-> "off"]
    /\ cpu = [main |-> "off"]
    /\ rx = [pc |-> "idle", fifo |-> <<>>, buffer |-> <<>>, moved |-> <<>>,
             arrived |-> 0, batches |-> 0]

SpecDrain == DrainInit /\ [][DrainNext]_vars

\* C34: one invocation of usart3_rx moves at most 16 bytes from the FIFO,
\* never faults because of its local buffer however many bytes the FIFO
\* holds, and leaves the remaining bytes, in order, to the next interrupt.
C34_BoundedBatch ==
    /\ Len(rx.buffer) <= RX_BATCH
    /\ rx.pc # "panic"
    /\ rx.moved \o (IF rx.pc = "idle" THEN <<>> ELSE rx.buffer) \o rx.fifo
         = [i \in 1..rx.arrived |-> i]


\* ------------------------------------------------------- host upload plan
\* build_upload_plan (software sequence.rs:146-182) and build_sequence
\* (104-139), one loop iteration at a time. Times are in units of
\* 1 / UnitsPerSec of a second.

\* Orders in a list, and the largest duration of an order.
MaxOrders == 3
MaxOrderT == 4
UnitsPerSec == 2

\* A FrequencyOrder: its duration (short or long), its number of frequency
\* changes (one, or as many as a sequence holds) and its band, which stands
\* for freq_hz and bandwidth_hz.
FrequencyOrders ==
    [t_us : {1, MaxOrderT}, n : {1, MAX_SEQUENCE_LEN}, band : 0..MaxFracn]

DefaultSequence == [fracn_buffer |-> <<>>, pllchange_buffer |-> <<>>]

\* build_subsequence: the PLLChange and the n fractional values of an order.
\* The values drawn with the fixed seed are a function of the order, here
\* its band.
build_subsequence(order) ==
    [change |-> [for_ticks |-> order.n, start_tick |-> 0,
                 divn |-> 7 + order.band, vcosel |-> FALSE, divp |-> 1,
                 tim_us |-> order.t_us \div order.n],
     fracn |-> [j \in 1..order.n |-> order.band]]

\* build_sequence: base is flushed when the order does not fit or is the last
\* one; the order then goes into base. ok is FALSE when a push is refused.
build_sequence(order, base, is_last) ==
    LET subseq == build_subsequence(order)
        flush == \/ Len(base.fracn_buffer) + Len(subseq.fracn) > MAX_SEQUENCE_LEN
                 \/ Len(base.pllchange_buffer) + 1 > MAX_DIVN_CHANGES
                 \/ is_last
        b == IF flush THEN DefaultSequence ELSE base
        change == [subseq.change EXCEPT
                       !.start_tick = @ + Len(b.fracn_buffer)]
    IN [out |-> IF flush THEN <<base>> ELSE <<>>,
        base |-> [fracn_buffer |-> b.fracn_buffer \o subseq.fracn,
                  pllchange_buffer |-> Append(b.pllchange_buffer, change)],
        ok |-> /\ Len(b.pllchange_buffer) < MAX_DIVN_CHANGES
               /\ Len(b.fracn_buffer) + Len(subseq.fracn) <= MAX_SEQUENCE_LEN]

estimate_upload_time(seq) == UnitsPerSec

\* BTreeMap::insert.
Insert(map, k, v) ==
    [x \in DOMAIN map \cup {k} |-> IF x = k THEN v ELSE map[x]]

NewPlanner(orders) ==
    [pc |-> "plan", orders |-> orders, it |-> 1, out |-> <<>>,
     work_seq |-> DefaultSequence, last_upload_off_us |-> 0, toff_us |-> 0,
     replaced |-> FALSE]

\* One iteration of the loop of build_upload_plan, or its return.
PlanStep ==
    /\ host.pc = "plan"
    /\ IF host.it > Len(host.orders)
       THEN host' = [host EXCEPT !.pc = "planned"]
       ELSE LET order == host.orders[host.it]
                r == build_sequence(order, host.work_seq,
                                    host.it = Len(host.orders))
                net_off_us == host.toff_us - estimate_upload_time(r.out)
                time == net_off_us \div UnitsPerSec
            IN IF ~r.ok \/ (r.out # <<>> /\ ~(net_off_us > host.last_upload_off_us))
               THEN host' = [host EXCEPT !.pc = "panic"]
               ELSE host' =
                     [host EXCEPT
                        !.it = @ + 1,
                        !.work_seq = r.base,
                        !.toff_us = @ + order.t_us,
                        !.out = IF r.out # <<>>
                                THEN Insert(@, time, r.out[1]) ELSE @,
                        !.replaced = @ \/ (r.out # <<>> /\ time \in DOMAIN host.out),
                        !.last_upload_off_us =
                            IF r.out # <<>> THEN net_off_us ELSE @]
    /\ UNCHANGED <<ringVars, linkVars, seqVars, cpuVars>>

PlanNext == PlanStep

\* build_upload_plan called with any list of orders.
PlanInit ==
    /\ data = [i \in 0..(L - 1) |-> 0]
    /\ ptrs = [read |-> 0, write |-> 0]
    /\ accepted = <<>>
    /\ returned = <<>>
    /\ offered = 0
    /\ lastOp = [op |-> "new"]
    /\ rd = [pc |-> "idle"]
    /\ wr = [pc |-> "idle"]
    /\ msg_buffer = [i \in 0..(MAX_UPLINK_MSG_SIZE - 1) |-> 0]
    /\ msg_buffer_ptr = 0
    /\ wire = <<>>
    /\ tx = <<>>
    /\ sent = 0
    /\ noise = 0
    /\ cur = [msg |-> [tag |-> "None"], idle |-> FALSE, afterBad |-> FALSE,
              ahead |-> 0]
    /\ lastGet = [call |-> "none", last |-> -1]
    /\ pending = 0
    /\ fault = FALSE
    /\ state = NewSequencerState(FALSE)
    /\ lastCmd = [op |-> "setup", idle |-> TRUE, log |-> <<>>,
                  settled |-> FALSE]
    /\ host \in {NewPlanner(orders) :
                    orders \in UNION {[1..k -> FrequencyOrders] : k \in 0..MaxOrders}}
    /\ cpu = [main |-> "off"]
    /\ rx = [pc |-> "off"]

SpecPlan == PlanInit /\ [][PlanNext]_vars

\* The sequences of a plan in key order.
RECURSIVE InKeyOrder(_)
InKeyOrder(map) ==
    IF DOMAIN map = {} THEN <<>>
    ELSE LET k == CHOOSE x \in DOMAIN map : \A y \in DOMAIN map : x <= y
         IN <<map[k]>> \o InKeyOrder([x \in DOMAIN map \ {k} |-> map[x]])

\* The concatenation of the sequences s[1], s[2], ...
RECURSIVE Flatten(_)
Flatten(s) == IF s = <<>> THEN <<>> ELSE Head(s) \o Flatten(Tail(s))

\* The changes of a stored sequence as build_subsequence made them.
Unrelocated(seq) ==
    [j \in 1..Len(seq.pllchange_buffer) |->
        [seq.pllchange_buffer[j] EXCEPT !.start_tick = 0]]

\* C35: the sequences of the plan build_upload_plan returns, in key order,
\* hold the PLLChange and the fractional values of every order exactly once
\* and in the order given, the last order included; each stored sequence
\* respects MAX_SEQUENCE_LEN and MAX_DIVN_CHANGES; no stored sequence is
\* replaced by a later one inserted under the same key.
C35_PlanComplete ==
    host.pc = "planned" =>
        LET stored == InKeyOrder(host.out)
            subseqs == [j \in 1..Len(host.orders) |->
                           build_subsequence(host.orders[j])]
        IN /\ Flatten([j \in 1..Len(stored) |-> stored[j].fracn_buffer])
                = Flatten([j \in 1..Len(subseqs) |-> subseqs[j].fracn])
           /\ Flatten([j \in 1..Len(stored) |-> Unrelocated(stored[j])])
                = [j \in 1..Len(subseqs) |-> subseqs[j].change]
           /\ \A j \in 1..Len(stored) :
                 /\ Len(stored[j].fracn_buffer) <= MAX_SEQUENCE_LEN
                 /\ Len(stored[j].pllchange_buffer) <= MAX_DIVN_CHANGES
           /\ ~host.replaced


\* ------------------------------------------------------- upload session
\* The host's main and send (software main.rs:224-351) against the firmware's
\* main loop (firmware main.rs:145-155) at the grain of frames: wire holds the
\* frames written by the host and not yet returned by get_message, each with
\* the index of the send that wrote it; tx holds the reply bytes not yet read
\* by the host. How get_message finds a frame in the bytes is the Link's
\* matter above.

\* Frames sent by another program than the host, and reads of the host that
\* time out, in a session.
MaxForeign == 1
MaxTimeouts == 1

\* The [u16; 32] chunks send_seq cuts a fracn_buffer into.
ChunksOf(buf) ==
    [j \in 1..((Len(buf) + FRACN_CHUNK - 1) \div FRACN_CHUNK) |->
        SubSeq(buf, (j - 1) * FRACN_CHUNK + 1, Min(j * FRACN_CHUNK, Len(buf)))]

\* The messages main sends for seq: StopNow, ClearBuffers, send_seq (the
\* fractional values, then the PLLChanges), StartNow.
SessionMsgs(seq) ==
    <<[tag |-> "StopNow"], [tag |-> "ClearBuffers"]>>
        \o [j \in 1..Len(ChunksOf(seq.fracn_buffer)) |->
              [tag |-> "PushFracn", count |-> Len(ChunksOf(seq.fracn_buffer)[j]),
               values |-> Pad(ChunksOf(seq.fracn_buffer)[j])]]
        \o [j \in 1..Len(seq.pllchange_buffer) |->
              [tag |-> "PushPLLChange", ch |-> seq.pllchange_buffer[j]]]
        \o <<[tag |-> "StartNow"]>>

\* The Sequences the host uploads: at most MaxHostChunks fractional values
\* and MaxHostChanges PLLChanges of one tick.
HostSeqs ==
    [fracn_buffer : SeqsOf(FracnVals, 0, MaxHostChunks),
     pllchange_buffer :
        SeqsOf({c \in PLLChanges : c.for_ticks = 1}, 0, MaxHostChanges)]

\* A PushFracn whose count is beyond its 32 values.
OversizePush == [tag |-> "PushFracn", count |-> FRACN_CHUNK + 1,
                 values |-> Pad(<<>>)]

NewSession(seq) ==
    [NewHost(Len(ChunksOf(seq.fracn_buffer)), Len(seq.pllchange_buffer))
        EXCEPT !.unacked = FALSE] @@ [seq |-> seq, foreign |-> 0, timeouts |-> 0]

\* main (or send_seq) calls send: port.clear(Input), then the loop.
PortSend ==
    /\ host.pc = "main"
    /\ host' = [host EXCEPT !.numtry = 0, !.sends = 0, !.read_buffer = 0,
                            !.lastRead = "none", !.res = "none",
                            !.pc = "write"]
    /\ tx' = <<>>
    /\ UNCHANGED <<msg_buffer, msg_buffer_ptr, wire, sent, noise, cur, lastGet,
                   pending, fault>>
    /\ UNCHANGED <<ringVars, seqVars, cpuVars>>

\* port.write(data) of one try.
PortWrite ==
    /\ host.pc = "write"
    /\ host' = [host EXCEPT !.pc = "read", !.sends = @ + 1, !.read_buffer = 0]
    /\ wire' = Append(wire, [msg |-> SessionMsgs(host.seq)[host.i],
                             of |-> host.i])
    /\ UNCHANGED <<msg_buffer, msg_buffer_ptr, tx, sent, noise, cur, lastGet,
                   pending, fault>>
    /\ UNCHANGED <<ringVars, seqVars, cpuVars>>

\* port.read of one try and the rest of the loop body: the oldest reply byte
\* if one has arrived, a timeout otherwise (the read waits once the session
\* has had MaxTimeouts of them).
PortRead ==
    /\ host.pc = "read"
    /\ tx = <<>> => host.timeouts < MaxTimeouts
    /\ LET h == [host EXCEPT
                    !.lastRead = IF tx # <<>> THEN "byte" ELSE "timeout",
                    !.timeouts = IF tx # <<>> THEN @ ELSE @ + 1,
                    !.read_buffer = IF tx # <<>> THEN Head(tx) ELSE @]
           h1 == [h EXCEPT !.numtry = @ + 1]
       IN  host' = IF h.read_buffer # 0 THEN Return(h, "Ok")
                   ELSE IF MayTry(h1.numtry) THEN [h1 EXCEPT !.pc = "write"]
                   ELSE Return(h1, "Err")
    /\ tx' = IF tx # <<>> THEN Tail(tx) ELSE tx
    /\ UNCHANGED <<msg_buffer, msg_buffer_ptr, wire, sent, noise, cur, lastGet,
                   pending, fault>>
    /\ UNCHANGED <<ringVars, seqVars, cpuVars>>

\* A reply byte is lost on the line; the read it was for will time out.
LoseReply ==
    /\ tx # <<>>
    /\ host.timeouts < MaxTimeouts
    /\ tx' = Tail(tx)
    /\ UNCHANGED <<msg_buffer, msg_buffer_ptr, wire, sent, noise, cur, lastGet,
                   pending, fault>>
    /\ UNCHANGED <<ringVars, seqVars, hostVars, cpuVars>>

\* Another program writes a frame the decoder accepts.
ForeignFrame(m) ==
    /\ host.pc # "off"
    /\ host.foreign < MaxForeign
    /\ host' = [host EXCEPT !.foreign = @ + 1]
    /\ wire' = Append(wire, [msg |-> m, of |-> 0])
    /\ UNCHANGED <<msg_buffer, msg_buffer_ptr, tx, sent, noise, cur, lastGet,
                   pending, fault>>
    /\ UNCHANGED <<ringVars, seqVars, cpuVars>>

\* The main loop's get_message returns the next frame's message: the frame
\* has been acknowledged (comm.rs:168-175).
MainGet ==
    /\ ~fault
    /\ cur.msg = None
    /\ wire # <<>>
    /\ wire' = Tail(wire)
    /\ tx' = Append(tx, 1)
    /\ cur' = [msg |-> Head(wire).msg, idle |-> FALSE, afterBad |-> FALSE,
               ahead |-> 0, of |-> Head(wire).of]
    /\ lastGet' = [call |-> "get", last |-> 1]
    /\ UNCHANGED <<msg_buffer, msg_buffer_ptr, sent, noise, pending, fault>>
    /\ UNCHANGED <<ringVars, seqVars, hostVars, cpuVars>>

\* The main loop's handle_msg on the message get_message returned. lastCmd
\* keeps the reply the frame got, the send it came from (0: not the host's)
\* and how many times in a row the message of that send has been dispatched.
MainHandle(overflow_checks) ==
    /\ cur.msg # None
    /\ LET r == dispatch(Logged(state), cur.msg, overflow_checks) IN
        /\ state' = Unlogged(r.st)
        /\ fault' = ~r.ok
        /\ lastCmd' = [op |-> cur.msg.tag, idle |-> ~state.is_running,
                       log |-> r.st.log, settled |-> cur.msg.tag = "StartNow",
                       ack |-> lastGet.last, of |-> cur.of,
                       times |-> IF lastCmd.op # "setup" /\ lastCmd.of = cur.of
                                 THEN lastCmd.times + 1 ELSE 1]
    /\ cur' = NoFrame
    /\ UNCHANGED <<msg_buffer, msg_buffer_ptr, wire, tx, sent, noise, lastGet,
                   pending>>
    /\ UNCHANGED <<ringVars, hostVars, cpuVars>>

SessionNext ==
    \/ PortSend
    \/ PortWrite
    \/ PortRead
    \/ LoseReply
    \/ ForeignFrame(OversizePush)
    \/ MainGet
    \/ \E overflow_checks \in BOOLEAN : MainHandle(overflow_checks)

\* The firmware after setup and the host at the start of main, with any
\* Sequence within the bounds.
SessionInit ==
    /\ data = [i \in 0..(L - 1) |-> 0]
    /\ ptrs = [read |-> 0, write |-> 0]
    /\ accepted = <<>>
    /\ returned = <<>>
    /\ offered = 0
    /\ lastOp = [op |-> "new"]
    /\ rd = [pc |-> "idle"]
    /\ wr = [pc |-> "idle"]
    /\ msg_buffer = [i \in 0..(MAX_UPLINK_MSG_SIZE - 1) |-> 0]
    /\ msg_buffer_ptr = 0
    /\ wire = <<>>
    /\ tx = <<>>
    /\ sent = 0
    /\ noise = 0
    /\ cur = [msg |-> [tag |-> "None"], idle |-> FALSE, afterBad |-> FALSE,
              ahead |-> 0]
    /\ lastGet = [call |-> "none", last |-> -1]
    /\ pending = 0
    /\ fault = FALSE
    /\ state = NewSequencerState(FALSE)
    /\ lastCmd = [op |-> "setup", idle |-> TRUE, log |-> <<>>,
                  settled |-> FALSE]
    /\ host \in {NewSession(seq) : seq \in HostSeqs}
    /\ cpu = [main |-> "off"]
    /\ rx = [pc |-> "off"]

SpecSession == SessionInit /\ [][SessionNext]_vars

\* C36: at-most-once application under retry: over a link where a reply byte
\* can be lost or arrive after the read timeout, the firmware dispatches the
\* message of a send of the host at most once; a retransmitted PushFracn or
\* PushPLLChange is not appended a second time.
C36_AtMostOnce ==
    (lastCmd.op # "setup" /\ lastCmd.of > 0) => lastCmd.times <= 1


\* The host has sent StopNow, ClearBuffers and the whole of send_seq, every
\* send returned Ok, and the firmware has served every frame written.
UploadAcked ==
    /\ host.pc = "main"
    /\ host.i = Len(SessionMsgs(host.seq))
    /\ ~host.unacked
    /\ wire = <<>>
    /\ cur.msg = None
    /\ ~fault

\* C38: after a fully acknowledged host upload (StopNow, ClearBuffers,
\* send_seq) the firmware slot that received the pushes holds a fracn_buffer
\* and a pllchange_buffer equal, element for element, to the host's Sequence.
C38_UploadEqualsSequence ==
    UploadAcked => state.seqs.buffers[get_back(state.seqs)] = host.seq

C37_ChunkingIndependent ==
    lastGet.call = "get" =>
        /\ FirstIndex(lastGet.got, 0) >= Len(lastGet.got)
        /\ (lastGet.of.idle /\ lastGet.terminated) =>
              /\ lastGet.ret = lastGet.of.msg
              /\ lastGet.wrote = <<1>>
        /\ (lastGet.of.idle /\ ~lastGet.terminated) =>
              /\ lastGet.ret = None
              /\ lastGet.wrote = <<>>


====
